---- MODULE Spec2Model ----
(***************************************************************************)
(* Elemental Deck Defense: a model of the combat core (enemies, elemental  *)
(* reactions, tower targeting, projectiles, adjacency synergies).          *)
(*                                                                         *)
(* Numbers are the program's own (pixels, milliseconds, hit points).       *)
(* Distances are compared through their squares, and floor(x * ratio) is   *)
(* computed over the reals, so no square root is ever approximated.        *)
(***************************************************************************)
EXTENDS Integers, Sequences, FiniteSets, TLC

VARIABLES
  enemies,      \* Game.enemies: enemy id -> Enemy record
  towers,       \* Game.towers: tower id -> Tower record
  projectiles,  \* the Projectile objects created so far; .listed = still in Game.projectiles
  spellUsage,   \* SpellSystem.spellUsageCounts
  now,          \* Date.now() / the frame timestamp, in ms
  steps,        \* operations performed so far, counted against the run bounds
  occupied,     \* GridSystem.cells: the <<row, col>> whose isOccupied flag is set
  rewardLoop,   \* the locals of the generateRewardChoices call in progress or last returned
  game,         \* Game's scene, phase, base HP, wave counters, tokens and start-button state
  last          \* history: the operation just performed and the states around it

vars == <<enemies, towers, projectiles, spellUsage, now, steps, occupied, rewardLoop, game, last>>

\* the Game fields outside the specifications of the game session
NoGame == [ scene |-> "game", gameState |-> "playing" ]

\* rewardLoop before the first generateRewardChoices call
NoRewardCall ==
  [ i |-> 0, rewards |-> <<>>, usedTypes |-> {}, duplicates |-> 0, exited |-> TRUE,
    currentHP |-> 0, maxHP |-> 0 ]

(***************************************************************************)
(* Bounds of the model                                                     *)
(***************************************************************************)
MaxHits == 3        \* operations per run in the reaction specification
MaxFrames == 4      \* tower updates per run in the targeting specification
MaxShots == 1       \* projectiles fired per run in the projectile specification
MaxTowers == 3      \* towers on the board at once in the synergy specification
MaxCalls == 3       \* operations per run in the crowd-control specification
MaxPreviewTowers == 2  \* towers on the board in the preview specification
MaxDuplicates == 14    \* duplicate draws in a row per generateRewardChoices call
MaxTicks == 10      \* frames per run in the whole-frame specification
FrameMs == 500      \* timestamp difference of two consecutive tower updates
MaxSiegeTicks == 13   \* frames per run in the siege specification
MaxSiegeEnemies == 5  \* enemies in the list at once in the siege specification
MaxSiegeTowers == 2   \* towers ever built in a run of the siege specification
MaxGridTicks == 4     \* frames and resets per run in the grid specification
MaxTowerCalls == 4    \* frames and Tower method calls per run in the tower-life specification
TimeOrigin == 1000000 \* performance.timeOrigin, the epoch time of the page load, in ms
WoundedHealth == 36 \* health left to a wave-5 ghost (120) after hits of 56 and 28
MaxWaves == 2       \* waves per game in the session specification
MaxUpdates == 6      \* calls per run in the freeze specification
WaveNumber == 5     \* the wave the enemies were spawned in

(***************************************************************************)
(* types: elements, statuses, reactions                                    *)
(***************************************************************************)
None == "none"      \* null / undefined

ElementType == {"physical", "fire", "ice", "lightning", "poison", "light", "arcane"}
StatusType == ElementType \cup {"oil", "frozen"}
ResistanceType == {"fire", "ice", "lightning", None}
ReactionOrder == <<"melt", "freeze", "explosion">>

\* REACTION_CONFIGS[type].trigger = [status, attack element]
ReactionTrigger(type) ==
  CASE type = "melt"      -> <<"ice", "fire">>
    [] type = "freeze"    -> <<"ice", "lightning">>
    [] type = "explosion" -> <<"oil", "fire">>

MeltMultiplier == 3
ExplosionMultiplierNum == 3         \* damageMultiplier 1.5 = 3 / 2
ExplosionMultiplierDen == 2
FreezeDuration == 2000
ExplosionRadius == 80
MinCcDuration == 200
StatusDuration == 3000
OilBombRadius == 70
OilBombDamage == 30
OilBombCooldown == 3

(***************************************************************************)
(* ENEMY_TYPE_CONFIGS                                                      *)
(***************************************************************************)
EnemyTypeConfig(type) ==
  CASE type = "normal"  -> [baseHealth |-> 80,   size |-> 24, evasionPct |-> 0,
                            priority |-> 1, ccImmunityPct |-> 0,  isBoss |-> FALSE]
    [] type = "tank"    -> [baseHealth |-> 250,  size |-> 32, evasionPct |-> 0,
                            priority |-> 3, ccImmunityPct |-> 0,  isBoss |-> FALSE]
    [] type = "breaker" -> [baseHealth |-> 40,   size |-> 22, evasionPct |-> 0,
                            priority |-> 2, ccImmunityPct |-> 0,  isBoss |-> FALSE]
    [] type = "ghost"   -> [baseHealth |-> 60,   size |-> 26, evasionPct |-> 50,
                            priority |-> 1, ccImmunityPct |-> 0,  isBoss |-> FALSE]
    [] type = "boss"    -> [baseHealth |-> 2000, size |-> 60, evasionPct |-> 0,
                            priority |-> 5, ccImmunityPct |-> 80, isBoss |-> TRUE]

Min(a, b) == IF a < b THEN a ELSE b
Max(a, b) == IF a > b THEN a ELSE b

\* squared Euclidean distance of two points <<x, y>>
Dist2(p, q) == (p[1] - q[1]) * (p[1] - q[1]) + (p[2] - q[2]) * (p[2] - q[2])

(***************************************************************************)
(* Enemy                                                                   *)
(***************************************************************************)
\* new Enemy(path, route, type, waveNumber, undefined, resistance), standing at pos
\* waveMultiplier = 1 + (wave - 1) * 0.25 = (wave + 3) / 4
NewEnemy(type, wave, resistance, pos) ==
  [ type           |-> type,
    health         |-> (EnemyTypeConfig(type).baseHealth * (wave + 3)) \div 4,
    maxHealth      |-> (EnemyTypeConfig(type).baseHealth * (wave + 3)) \div 4,
    isAlive        |-> TRUE,
    resistance     |-> resistance,
    status         |-> None,
    statusDuration |-> 0,
    isFrozen       |-> FALSE,
    freezeEndTime  |-> 0,
    pathIndex      |-> 0,
    pos            |-> pos ]

\* Enemy.takeDamage(damage, attackElement); attackElement = None when omitted
TakeDamageMutantIgnoreResistance(e, damage, attackElement) ==
  LET h == e.health - damage IN
  [ enemy |-> [e EXCEPT !.health = IF h <= 0 THEN 0 ELSE h,
                        !.isAlive = IF h <= 0 THEN FALSE ELSE e.isAlive],
    ret   |-> damage ]

TakeDamage(e, damage, attackElement) ==
  LET applied == IF attackElement = "physical" THEN damage
                 ELSE IF e.resistance # None /\ attackElement = e.resistance THEN 1
                 ELSE damage
      h == e.health - applied
  IN  [ enemy |-> [e EXCEPT !.health = IF h <= 0 THEN 0 ELSE h,
                            !.isAlive = IF h <= 0 THEN FALSE ELSE e.isAlive],
        ret   |-> applied ]

\* Enemy.applyStatus(status, duration = 3000)
ApplyStatusMutantKeep(e, status) ==
  IF e.status = None THEN [e EXCEPT !.status = status, !.statusDuration = StatusDuration]
  ELSE e

ApplyStatus(e, status) ==
  [e EXCEPT !.status = status, !.statusDuration = StatusDuration]

\* Enemy.clearStatus()
ClearStatus(e) == [e EXCEPT !.status = None, !.statusDuration = 0]

\* Math.floor(duration * (1 - ccImmunity)) in IEEE doubles: 1 - 0.8 is
\* 0.19999999999999996, so a multiple of 5 lands just below the exact fifth.
CcActualDuration(duration, ccImmunityPct) ==
  IF ccImmunityPct = 0 THEN duration
  ELSE IF duration % 5 = 0 THEN (duration \div 5) - 1 ELSE duration \div 5

\* Enemy.freeze(duration) at time t
Freeze(e, duration, t) ==
  LET actualDuration == CcActualDuration(duration, EnemyTypeConfig(e.type).ccImmunityPct) IN
  IF actualDuration < MinCcDuration THEN e
  ELSE [e EXCEPT !.isFrozen = TRUE, !.freezeEndTime = t + actualDuration,
                 !.status = "frozen"]

(***************************************************************************)
(* ReactionSystem                                                          *)
(***************************************************************************)
\* Math.floor(total * (1 - (distance / radius) * 0.5)) for distance^2 = d2 <= radius^2:
\* the largest k with  total * distance <= 2 * radius * (total - k)
FalloffFits(total, d2, radius, k) ==
  d2 * total * total <= 4 * radius * radius * (total - k) * (total - k)

FalloffDamageMutantNoFalloff(total, d2, radius) == total

FalloffDamage(total, d2, radius) ==
  CHOOSE k \in 0..total :
    /\ FalloffFits(total, d2, radius, k)
    /\ (k = total \/ ~FalloffFits(total, d2, radius, k + 1))

\* the reaction's totalDamage
ReactionDamage(type, baseDamage) ==
  CASE type = "melt"      -> baseDamage * MeltMultiplier
    [] type = "freeze"    -> baseDamage
    [] type = "explosion" -> (baseDamage * ExplosionMultiplierNum) \div ExplosionMultiplierDen

\* the explosion loop body for one enemy of allEnemies
ExplodeOneMutantIgnites(e, position, totalDamage) ==
  IF ~e.isAlive \/ Dist2(e.pos, position) > ExplosionRadius * ExplosionRadius THEN e
  ELSE ApplyStatus(TakeDamage(e, FalloffDamage(totalDamage, Dist2(e.pos, position),
                                               ExplosionRadius), None).enemy, "fire")

ExplodeOne(e, position, totalDamage) ==
  IF ~e.isAlive \/ Dist2(e.pos, position) > ExplosionRadius * ExplosionRadius THEN e
  ELSE LET hit == TakeDamage(e, FalloffDamage(totalDamage, Dist2(e.pos, position),
                                             ExplosionRadius), None).enemy
       IN  IF hit.status = "oil" THEN ClearStatus(hit) ELSE hit

\* affectedEnemies: the primary, then the enemies the explosion loop pushes
AffectedEnemies(es, i, type) ==
  IF type # "explosion" THEN << i >>
  ELSE << i >> \o SelectSeq([j \in 1..Len(es) |-> j],
                            LAMBDA j : /\ j # i
                                       /\ es[j].isAlive
                                       /\ Dist2(es[j].pos, es[i].pos)
                                            <= ExplosionRadius * ExplosionRadius)

\* ReactionSystem.executeReaction(type, config, enemy, baseDamage, allEnemies)
ExecuteReactionMutantKeepFrozenTag(es, i, type, baseDamage, t) ==
  LET totalDamage == ReactionDamage(type, baseDamage)
      after ==
        CASE type = "melt" ->
               [es EXCEPT ![i] = ClearStatus(TakeDamage(es[i], totalDamage, None).enemy)]
          [] type = "freeze" ->
               [es EXCEPT ![i] = Freeze(es[i], FreezeDuration, t)]
          [] type = "explosion" ->
               LET blown == [j \in DOMAIN es |-> ExplodeOne(es[j], es[i].pos, totalDamage)]
               IN  [blown EXCEPT ![i] = ClearStatus(blown[i])]
  IN  [ enemies |-> after, reaction |-> type, damage |-> totalDamage,
        affected |-> AffectedEnemies(es, i, type) ]

ExecuteReaction(es, i, type, baseDamage, t) ==
  LET totalDamage == ReactionDamage(type, baseDamage)
      after ==
        CASE type = "melt" ->
               [es EXCEPT ![i] = ClearStatus(TakeDamage(es[i], totalDamage, None).enemy)]
          [] type = "freeze" ->
               [es EXCEPT ![i] = ClearStatus(Freeze(es[i], FreezeDuration, t))]
          [] type = "explosion" ->
               LET blown == [j \in DOMAIN es |-> ExplodeOne(es[j], es[i].pos, totalDamage)]
               IN  [blown EXCEPT ![i] = ClearStatus(blown[i])]
  IN  [ enemies |-> after, reaction |-> type, damage |-> totalDamage,
        affected |-> AffectedEnemies(es, i, type) ]

\* the first reaction of REACTION_CONFIGS whose trigger is (status, attackElement)
MatchingReaction(status, attackElement) ==
  LET found == {k \in 1..Len(ReactionOrder) :
                  ReactionTrigger(ReactionOrder[k]) = <<status, attackElement>>}
  IN  IF found = {} THEN None
      ELSE ReactionOrder[CHOOSE k \in found : \A m \in found : k <= m]

\* ReactionSystem.checkAndTriggerReaction(enemy, attackElement, baseDamage, allEnemies)
CheckAndTriggerReaction(es, i, attackElement, baseDamage, t) ==
  LET currentStatus == es[i].status
      type == MatchingReaction(currentStatus, attackElement)
  IN  IF currentStatus = None \/ type = None
      THEN [ enemies |-> [es EXCEPT ![i] = ApplyStatus(es[i], attackElement)],
             reaction |-> None, damage |-> 0, affected |-> << >> ]
      ELSE ExecuteReaction(es, i, type, baseDamage, t)

(***************************************************************************)
(* Game.update: resolution of one reported projectile hit                  *)
(***************************************************************************)
\* reaction check, then takeDamage(damage, element) only when no reaction fired
ResolveHitMutantAlwaysDamage(es, i, element, damage, t) ==
  LET checked == CheckAndTriggerReaction(es, i, element, damage, t)
      dealt == TakeDamage(checked.enemies[i], damage, element)
  IN  [ enemies |-> [checked.enemies EXCEPT ![i] = dealt.enemy],
        mid |-> checked.enemies, reaction |-> checked.reaction,
        affected |-> checked.affected,
        ret |-> IF checked.reaction # None THEN checked.damage ELSE dealt.ret ]

ResolveHit(es, i, element, damage, t) ==
  LET checked == CheckAndTriggerReaction(es, i, element, damage, t) IN
  IF checked.reaction # None
  THEN [ enemies |-> checked.enemies, mid |-> checked.enemies,
         reaction |-> checked.reaction, ret |-> checked.damage,
         affected |-> checked.affected ]
  ELSE LET dealt == TakeDamage(checked.enemies[i], damage, element) IN
       [ enemies |-> [checked.enemies EXCEPT ![i] = dealt.enemy],
         mid |-> checked.enemies, reaction |-> None, ret |-> dealt.ret,
         affected |-> << >> ]

(***************************************************************************)
(* Tower                                                                   *)
(***************************************************************************)
\* ELEMENT_BASE_DAMAGE
ElementBaseDamage(element) == IF element = "physical" THEN 40 ELSE 28

GridSize == 40
MaxTowerLevel == 3
ProjectileSpeed == 8

\* GridSystem.getCellCenter(row, col)
CellCenter(row, col) == <<col * GridSize + GridSize \div 2, row * GridSize + GridSize \div 2>>

\* LEVEL_SIZE_BONUS
LevelSizeBonus(level) == CASE level = 1 -> 0 [] level = 2 -> 4 [] level = 3 -> 8

\* getTowerConfigByElement(element, level)
TowerConfigByElement(element, level) ==
  [ range    |-> 120 + (level - 1) * 20,
    fireRate |-> Max(500, 1000 - (level - 1) * 200),
    damage   |-> ElementBaseDamage(element) * level,
    size     |-> 30 + LevelSizeBonus(level) ]

\* new Tower(gridRow, gridCol, centerPosition, element, level)
NewTower(gridRow, gridCol, element, level) ==
  LET lv == Min(level, MaxTowerLevel)
      cfg == TowerConfigByElement(element, lv)
  IN  [ gridRow |-> gridRow, gridCol |-> gridCol, pos |-> CellCenter(gridRow, gridCol),
        element |-> element, level |-> lv,
        range |-> cfg.range, fireRate |-> cfg.fireRate, baseDamage |-> cfg.damage,
        size |-> cfg.size,
        maxHp |-> 100 + (lv - 1) * 50, hp |-> 100 + (lv - 1) * 50, isAlive |-> TRUE,
        isSilenced |-> FALSE, silenceEndTime |-> 0,
        activeSynergies |-> <<>>, synergyDamageMultiplier |-> <<1, 1>>,
        lastFireTime |-> 0, currentTarget |-> 0 ]

\* Tower.isInRange(enemy): getDistanceTo(enemy) <= range
IsInRange(tw, e) == Dist2(e.pos, tw.pos) <= tw.range * tw.range

\* Tower.getEffectiveDamage(): Math.floor(baseDamage * synergyDamageMultiplier),
\* the multiplier kept as the fraction <<numerator, denominator>>
EffectiveDamage(tw) ==
  (tw.baseDamage * tw.synergyDamageMultiplier[1]) \div tw.synergyDamageMultiplier[2]

\* the scan loop of Tower.findTarget over enemies[k..], acc = the loop's locals;
\* closestDistance is kept squared, -1 standing for Infinity
RECURSIVE ScanTargetsMutantNearest(_, _, _, _)
ScanTargetsMutantNearest(tw, es, k, acc) ==
  IF k > Len(es) THEN acc.currentTarget
  ELSE LET d2 == Dist2(es[k].pos, tw.pos) IN
       IF ~es[k].isAlive \/ d2 > tw.range * tw.range
       THEN ScanTargetsMutantNearest(tw, es, k + 1, acc)
       ELSE IF acc.closestDistance2 = -1 \/ d2 < acc.closestDistance2
            THEN ScanTargetsMutantNearest(tw, es, k + 1,
                   [ currentTarget |-> k, bestPriority |-> 0, closestDistance2 |-> d2 ])
            ELSE ScanTargetsMutantNearest(tw, es, k + 1, acc)

RECURSIVE ScanTargets(_, _, _, _)
ScanTargets(tw, es, k, acc) ==
  IF k > Len(es) THEN acc.currentTarget
  ELSE LET d2 == Dist2(es[k].pos, tw.pos)
           priority == EnemyTypeConfig(es[k].type).priority
       IN  IF ~es[k].isAlive \/ d2 > tw.range * tw.range
           THEN ScanTargets(tw, es, k + 1, acc)
           ELSE IF \/ priority > acc.bestPriority
                   \/ /\ priority = acc.bestPriority
                      /\ (acc.closestDistance2 = -1 \/ d2 < acc.closestDistance2)
                THEN ScanTargets(tw, es, k + 1,
                       [ currentTarget |-> k, bestPriority |-> priority,
                         closestDistance2 |-> d2 ])
                ELSE ScanTargets(tw, es, k + 1, acc)

ScanStart == [ currentTarget |-> 0, bestPriority |-> 0, closestDistance2 |-> -1 ]

\* Tower.findTarget(enemies); currentTarget is an enemy id, 0 for null
FindTargetMutantAlwaysRescan(tw, es) ==
  [tw EXCEPT !.currentTarget = ScanTargets(tw, es, 1, ScanStart)]

FindTarget(tw, es) ==
  IF /\ tw.currentTarget # 0
     /\ es[tw.currentTarget].isAlive
     /\ IsInRange(tw, es[tw.currentTarget])
  THEN tw
  ELSE [tw EXCEPT !.currentTarget = ScanTargets(tw, es, 1, ScanStart)]

\* Tower.tryFire(currentTime): the tower afterwards, the projectile or None, and
\* whether a projectile was returned
TryFireMutantNoRangeCheck(tw, es, currentTime) ==
  LET unsilenced == IF tw.isSilenced /\ currentTime >= tw.silenceEndTime
                    THEN [tw EXCEPT !.isSilenced = FALSE] ELSE tw
  IN  IF unsilenced.isSilenced
        THEN [ tower |-> unsilenced, projectile |-> None, fired |-> FALSE ]
      ELSE IF unsilenced.currentTarget = 0 \/ ~es[unsilenced.currentTarget].isAlive
        THEN [ tower |-> unsilenced, projectile |-> None, fired |-> FALSE ]
      ELSE IF currentTime - unsilenced.lastFireTime < unsilenced.fireRate
        THEN [ tower |-> unsilenced, projectile |-> None, fired |-> FALSE ]
      ELSE [ tower |-> [unsilenced EXCEPT !.lastFireTime = currentTime],
             projectile |-> [ pos |-> unsilenced.pos,
                              target |-> unsilenced.currentTarget,
                              element |-> unsilenced.element,
                              speed |-> ProjectileSpeed,
                              size |-> IF Len(unsilenced.activeSynergies) > 0 THEN 8 ELSE 6,
                              damage |-> EffectiveDamage(unsilenced) ],
             fired |-> TRUE ]

TryFire(tw, es, currentTime) ==
  LET unsilenced == IF tw.isSilenced /\ currentTime >= tw.silenceEndTime
                    THEN [tw EXCEPT !.isSilenced = FALSE] ELSE tw
  IN  IF unsilenced.isSilenced
        THEN [ tower |-> unsilenced, projectile |-> None, fired |-> FALSE ]
      ELSE IF unsilenced.currentTarget = 0 \/ ~es[unsilenced.currentTarget].isAlive
        THEN [ tower |-> unsilenced, projectile |-> None, fired |-> FALSE ]
      ELSE IF currentTime - unsilenced.lastFireTime < unsilenced.fireRate
        THEN [ tower |-> unsilenced, projectile |-> None, fired |-> FALSE ]
      ELSE IF ~IsInRange(unsilenced, es[unsilenced.currentTarget])
        THEN [ tower |-> [unsilenced EXCEPT !.currentTarget = 0], projectile |-> None, fired |-> FALSE ]
      ELSE [ tower |-> [unsilenced EXCEPT !.lastFireTime = currentTime],
             projectile |-> [ pos |-> unsilenced.pos,
                              target |-> unsilenced.currentTarget,
                              element |-> unsilenced.element,
                              speed |-> ProjectileSpeed,
                              size |-> IF Len(unsilenced.activeSynergies) > 0 THEN 8 ELSE 6,
                              damage |-> EffectiveDamage(unsilenced) ],
             fired |-> TRUE ]

(***************************************************************************)
(* SynergySystem, Tower.setSynergies, Tower.levelUp                        *)
(* A damage multiplier is the fraction <<numerator, denominator>>.         *)
(***************************************************************************)
\* the cells that occupyCell has marked for the towers ts
OccupiedBy(ts) == { <<ts[k].gridRow, ts[k].gridCol>> : k \in DOMAIN ts }

GridRows == 15
GridCols == 15

\* Object.values(SYNERGY_CONFIGS), in declaration order
SynergyTypes == << "fire_ice", "ice_lightning", "lightning_fire" >>

\* SYNERGY_CONFIGS
SynergyConfig(type) ==
  CASE type = "fire_ice" ->
         [ sourceElement |-> "fire", requiredElement |-> "ice", damageMultiplier |-> <<2, 1>> ]
    [] type = "ice_lightning" ->
         [ sourceElement |-> "ice", requiredElement |-> "lightning", damageMultiplier |-> <<3, 2>> ]
    [] type = "lightning_fire" ->
         [ sourceElement |-> "lightning", requiredElement |-> "fire", damageMultiplier |-> <<3, 2>> ]

\* the directions array of getAdjacentTowers
Directions == << <<-1, 0>>, <<1, 0>>, <<0, -1>>, <<0, 1>> >>

\* createTowerMap(...).get(`${row},${col}`): the index of the tower stored under
\* the key, a later tower of the list overwriting an earlier one; 0 = undefined
TowerMapGet(ts, row, col) ==
  LET at == { k \in DOMAIN ts : ts[k].gridRow = row /\ ts[k].gridCol = col }
  IN  IF at = {} THEN 0 ELSE CHOOSE k \in at : \A j \in at : j <= k

\* SynergySystem.getAdjacentTowers(): indices of the towers in the four cells
RECURSIVE GetAdjacentTowers(_, _, _)
GetAdjacentTowers(tw, ts, d) ==
  IF d > Len(Directions) THEN <<>>
  ELSE LET newRow == tw.gridRow + Directions[d][1]
           newCol == tw.gridCol + Directions[d][2]
           rest   == GetAdjacentTowers(tw, ts, d + 1)
       IN  IF newRow < 0 \/ newRow >= GridRows \/ newCol < 0 \/ newCol >= GridCols
             THEN rest
           ELSE IF TowerMapGet(ts, newRow, newCol) # 0
             THEN <<TowerMapGet(ts, newRow, newCol)>> \o rest
           ELSE rest

\* the synergy loop of calculateSynergiesForTower over SynergyTypes[n..]
RECURSIVE SynergyLoopMutantSymmetric(_, _, _)
SynergyLoopMutantSymmetric(tw, adjacentElements, n) ==
  IF n > Len(SynergyTypes) THEN <<>>
  ELSE LET cfg  == SynergyConfig(SynergyTypes[n])
           rest == SynergyLoopMutantSymmetric(tw, adjacentElements, n + 1)
       IN  IF \/ tw.element = cfg.sourceElement /\ cfg.requiredElement \in adjacentElements
              \/ tw.element = cfg.requiredElement /\ cfg.sourceElement \in adjacentElements
             THEN <<SynergyTypes[n]>> \o rest
           ELSE rest

RECURSIVE SynergyLoop(_, _, _)
SynergyLoop(tw, adjacentElements, n) ==
  IF n > Len(SynergyTypes) THEN <<>>
  ELSE LET cfg  == SynergyConfig(SynergyTypes[n])
           rest == SynergyLoop(tw, adjacentElements, n + 1)
       IN  IF tw.element = cfg.sourceElement /\ cfg.requiredElement \in adjacentElements
             THEN <<SynergyTypes[n]>> \o rest
           ELSE rest

\* SynergySystem.calculateSynergiesForTower()
CalculateSynergiesForTower(tw, ts) ==
  LET adjacentTowers   == GetAdjacentTowers(tw, ts, 1)
      adjacentElements == { ts[adjacentTowers[a]].element : a \in DOMAIN adjacentTowers }
  IN  SynergyLoop(tw, adjacentElements, 1)

\* synergies.reduce((multiplier, synergy) => multiplier * synergy.damageMultiplier, init)
RECURSIVE ReduceMultiplier(_, _, _)
ReduceMultiplier(synergies, n, multiplier) ==
  IF n > Len(synergies) THEN multiplier
  ELSE ReduceMultiplier(synergies, n + 1,
         << multiplier[1] * SynergyConfig(synergies[n]).damageMultiplier[1],
            multiplier[2] * SynergyConfig(synergies[n]).damageMultiplier[2] >>)

\* Tower.setSynergies()
SetSynergiesMutantAccumulate(tw, synergies) ==
  [tw EXCEPT !.activeSynergies = synergies,
             !.synergyDamageMultiplier =
                ReduceMultiplier(synergies, 1, tw.synergyDamageMultiplier)]

SetSynergies(tw, synergies) ==
  [tw EXCEPT !.activeSynergies = synergies,
             !.synergyDamageMultiplier = ReduceMultiplier(synergies, 1, <<1, 1>>)]

\* SynergySystem.calculateAndApplySynergies(): the map is built once from the
\* list, and setSynergies changes no field the map is read for
CalculateAndApplySynergies(ts) ==
  [k \in DOMAIN ts |-> SetSynergies(ts[k], CalculateSynergiesForTower(ts[k], ts))]

\* Tower.canMergeWith(element, level)
CanMergeWith(tw, element, level) ==
  tw.element = element /\ tw.level = level /\ tw.level < MaxTowerLevel

\* Tower.levelUp()
LevelUp(tw) ==
  IF tw.level >= MaxTowerLevel THEN tw
  ELSE LET cfg == TowerConfigByElement(tw.element, tw.level + 1) IN
       [tw EXCEPT !.level = tw.level + 1,
                  !.range = cfg.range, !.fireRate = cfg.fireRate,
                  !.baseDamage = cfg.damage, !.size = cfg.size,
                  !.maxHp = 100 + tw.level * 50, !.hp = 100 + tw.level * 50]

(***************************************************************************)
(* Projectile                                                              *)
(* Positions are whole pixels: a velocity component is the real value      *)
(* (d / distance) * speed truncated toward zero.                           *)
(***************************************************************************)
CanvasWidth == 600
CanvasHeight == 600
OutOfBoundsMargin == 50
CriticalMultiplier == 2

Sign(d) == IF d < 0 THEN -1 ELSE IF d > 0 THEN 1 ELSE 0

\* the value of 0 / 0: a coordinate that holds it is not a number
NaN == -1000000

\* (d / sqrt(d2)) * speed, truncated: the largest n with n * sqrt(d2) <= |d| * speed;
\* with d2 = 0 the quotient is 0 / 0
VelocityComponent(d, d2, speed) ==
  IF d2 = 0 THEN NaN
  ELSE Sign(d) * (CHOOSE n \in 0..speed :
                    /\ n * n * d2 <= d * d * speed * speed
                    /\ (n + 1) * (n + 1) * d2 > d * d * speed * speed)

\* Projectile.updateVelocity()
UpdateVelocityMutantNoGuard(p, es) ==
  IF ~es[p.target].isAlive THEN p
  ELSE LET dx == es[p.target].pos[1] - p.pos[1]
           dy == es[p.target].pos[2] - p.pos[2]
           d2 == dx * dx + dy * dy
       IN  [p EXCEPT !.velocity = << VelocityComponent(dx, d2, p.speed),
                                     VelocityComponent(dy, d2, p.speed) >>]

UpdateVelocity(p, es) ==
  IF ~es[p.target].isAlive THEN p
  ELSE LET dx == es[p.target].pos[1] - p.pos[1]
           dy == es[p.target].pos[2] - p.pos[2]
           d2 == dx * dx + dy * dy
       IN  IF d2 > 0
           THEN [p EXCEPT !.velocity = << VelocityComponent(dx, d2, p.speed),
                                          VelocityComponent(dy, d2, p.speed) >>]
           ELSE p

\* new Projectile(startPosition, target, element, config)
NewProjectile(startPosition, es, config) ==
  UpdateVelocity([ pos |-> startPosition, velocity |-> <<0, 0>>, isActive |-> TRUE,
                   target |-> config.target, element |-> config.element,
                   speed |-> config.speed, size |-> config.size,
                   damage |-> config.damage,
                   listed |-> TRUE, hitsReported |-> 0 ], es)

\* Projectile.isOutOfBounds()
IsOutOfBounds(pos) ==
  \/ pos[1] < -OutOfBoundsMargin
  \/ pos[1] > CanvasWidth + OutOfBoundsMargin
  \/ pos[2] < -OutOfBoundsMargin
  \/ pos[2] > CanvasHeight + OutOfBoundsMargin

\* Projectile.checkCollision(): distance < size + target.size / 2, both sides doubled
CheckCollision(p, e) ==
  4 * Dist2(e.pos, p.pos)
    < (2 * p.size + EnemyTypeConfig(e.type).size) * (2 * p.size + EnemyTypeConfig(e.type).size)

\* the null HitResult
NoHit == [ damage |-> 0, isCritical |-> FALSE, element |-> None, target |-> 0 ]

\* Projectile.update(): the projectile afterwards and the HitResult, or NoHit;
\* isCritical is the outcome of the critical roll
ProjectileUpdateMutantStayActive(p, es, isCritical) ==
  LET aimed == IF es[p.target].isAlive THEN UpdateVelocity(p, es) ELSE p
      moved == [aimed EXCEPT !.pos = <<aimed.pos[1] + aimed.velocity[1],
                                       aimed.pos[2] + aimed.velocity[2]>>]
  IN  IF IsOutOfBounds(moved.pos)
        THEN [ projectile |-> [moved EXCEPT !.isActive = FALSE], hit |-> NoHit ]
      ELSE IF es[p.target].isAlive /\ CheckCollision(moved, es[p.target])
        THEN [ projectile |-> moved,
               hit |-> [ damage |-> IF isCritical THEN moved.damage * CriticalMultiplier
                                    ELSE moved.damage,
                         isCritical |-> isCritical, element |-> moved.element,
                         target |-> moved.target ] ]
      ELSE [ projectile |-> moved, hit |-> NoHit ]

ProjectileUpdateMutantRemoveOnDeadTarget(p, es, isCritical) ==
  IF ~p.isActive THEN [ projectile |-> p, hit |-> NoHit ]
  ELSE IF ~es[p.target].isAlive
    THEN [ projectile |-> [p EXCEPT !.isActive = FALSE], hit |-> NoHit ]
  ELSE
  LET aimed == UpdateVelocity(p, es)
      moved == [aimed EXCEPT !.pos = <<aimed.pos[1] + aimed.velocity[1],
                                       aimed.pos[2] + aimed.velocity[2]>>]
  IN  IF IsOutOfBounds(moved.pos)
        THEN [ projectile |-> [moved EXCEPT !.isActive = FALSE], hit |-> NoHit ]
      ELSE IF CheckCollision(moved, es[p.target])
        THEN [ projectile |-> [moved EXCEPT !.isActive = FALSE],
               hit |-> [ damage |-> IF isCritical THEN moved.damage * CriticalMultiplier
                                    ELSE moved.damage,
                         isCritical |-> isCritical, element |-> moved.element,
                         target |-> moved.target ] ]
      ELSE [ projectile |-> moved, hit |-> NoHit ]

ProjectileUpdate(p, es, isCritical) ==
  IF ~p.isActive THEN [ projectile |-> p, hit |-> NoHit ]
  ELSE
  LET aimed == IF es[p.target].isAlive THEN UpdateVelocity(p, es) ELSE p
      moved == [aimed EXCEPT !.pos = <<aimed.pos[1] + aimed.velocity[1],
                                       aimed.pos[2] + aimed.velocity[2]>>]
  IN  IF IsOutOfBounds(moved.pos)
        THEN [ projectile |-> [moved EXCEPT !.isActive = FALSE], hit |-> NoHit ]
      ELSE IF es[p.target].isAlive /\ CheckCollision(moved, es[p.target])
        THEN [ projectile |-> [moved EXCEPT !.isActive = FALSE],
               hit |-> [ damage |-> IF isCritical THEN moved.damage * CriticalMultiplier
                                    ELSE moved.damage,
                         isCritical |-> isCritical, element |-> moved.element,
                         target |-> moved.target ] ]
      ELSE [ projectile |-> moved, hit |-> NoHit ]

(***************************************************************************)
(* SpellSystem.castSpell('oil_bomb', targetPosition, allEnemies)           *)
(***************************************************************************)
OilBombOne(e, targetPosition) ==
  IF ~e.isAlive \/ Dist2(e.pos, targetPosition) > OilBombRadius * OilBombRadius THEN e
  ELSE ApplyStatus(TakeDamage(e, OilBombDamage, None).enemy, "oil")

CastOilBomb(es, targetPosition) ==
  [j \in DOMAIN es |-> OilBombOne(es[j], targetPosition)]

(***************************************************************************)
(* Specification of hit resolution: projectile steps and oil bombs landing  *)
(* on a small group of enemies                                             *)
(***************************************************************************)
EnemyIds == {1, 2}
Origin == <<100, 100>>
\* where the second enemy stands: 50 px away, exactly on the explosion radius,
\* one pixel outside it
SecondPositions == {<<130, 140>>, <<100, 180>>, <<100, 181>>}

\* <<element, damage>> of the projectiles in flight: level-1 towers, and a fire
\* tower whose damage is doubled (critical hit, level 2 or the fire-ice synergy)
Shots ==
  {<<el, ElementBaseDamage(el)>> : el \in {"physical", "fire", "ice", "lightning"}}
    \cup {<<"fire", 2 * ElementBaseDamage("fire")>>}

NoOp == [ op |-> "init", target |-> 0, element |-> None, damage |-> 0,
          reaction |-> None, ret |-> 0, affected |-> << >>, counted |-> << >> ]

\* Game.update after a hit was resolved: the enemies entered in the kill
\* counters, the defeat record and the drop or boss reward
KillAccounting(es, i) == IF ~es[i].isAlive THEN << i >> ELSE << >>

InitReaction ==
  /\ \E r1 \in {None, "fire"}, t2 \in {"tank", "ghost", "boss"}, p2 \in SecondPositions,
        cond \in {"fresh", "wounded", "killed"} :
       \* killed: the second enemy died earlier in the frame and is still listed;
       \* wounded: a ghost that earlier hits left with WoundedHealth
       /\ cond = "wounded" => t2 = "ghost"
       /\ enemies = [i \in EnemyIds |->
                       IF i = 1 THEN NewEnemy("normal", WaveNumber, r1, Origin)
                       ELSE IF cond = "killed"
                       THEN [NewEnemy(t2, WaveNumber, None, p2)
                               EXCEPT !.health = 0, !.isAlive = FALSE]
                       ELSE IF cond = "wounded"
                       THEN [NewEnemy(t2, WaveNumber, None, p2) EXCEPT !.health = WoundedHealth]
                       ELSE NewEnemy(t2, WaveNumber, None, p2)]
  /\ towers = <<>>
  /\ projectiles = <<>>
  /\ spellUsage = 0
  /\ occupied = OccupiedBy(towers)
  /\ rewardLoop = NoRewardCall
  /\ game = NoGame
  /\ now = 0
  /\ steps = 0
  /\ last = [NoOp EXCEPT !.op = "init"] @@ [pre |-> enemies, mid |-> enemies]

\* Game.update, one projectile whose update() reported a hit on enemy i
ProjectileHit(i, shot, evaded) ==
  /\ steps < MaxHits
  /\ enemies[i].isAlive
  /\ IF evaded THEN EnemyTypeConfig(enemies[i].type).evasionPct > 0
               ELSE EnemyTypeConfig(enemies[i].type).evasionPct < 100
  /\ LET r == ResolveHit(enemies, i, shot[1], shot[2], now) IN
       IF evaded
       THEN /\ UNCHANGED enemies
            /\ last' = [ op |-> "evade", target |-> i, element |-> shot[1],
                         damage |-> shot[2], reaction |-> None, ret |-> 0,
                         affected |-> << >>, counted |-> << >>,
                         pre |-> enemies, mid |-> enemies ]
       ELSE /\ enemies' = r.enemies
            /\ last' = [ op |-> "hit", target |-> i, element |-> shot[1],
                         damage |-> shot[2], reaction |-> r.reaction, ret |-> r.ret,
                         affected |-> r.affected,
                         counted |-> KillAccounting(r.enemies, i),
                         pre |-> enemies, mid |-> r.mid ]
  /\ steps' = steps + 1
  /\ UNCHANGED <<towers, projectiles, spellUsage, now, occupied, rewardLoop, game>>

\* Game casts an oil bomb centred on enemy i's position
OilBomb(i) ==
  /\ steps < MaxHits
  /\ spellUsage < OilBombCooldown
  /\ enemies' = CastOilBomb(enemies, enemies[i].pos)
  /\ spellUsage' = spellUsage + 1
  /\ last' = [ op |-> "oil_bomb", target |-> i, element |-> None,
               damage |-> OilBombDamage, reaction |-> None, ret |-> 0,
               affected |-> << >>, counted |-> << >>,
               pre |-> enemies, mid |-> enemies ]
  /\ steps' = steps + 1
  /\ UNCHANGED <<towers, projectiles, now, occupied, rewardLoop, game>>

NextReaction ==
  \/ \E i \in EnemyIds, shot \in Shots : ProjectileHit(i, shot, FALSE)
  \/ \E i \in EnemyIds, shot \in Shots : ProjectileHit(i, shot, TRUE)
  \/ \E i \in EnemyIds : OilBomb(i)

SpecReaction == InitReaction /\ [][NextReaction]_vars

(***************************************************************************)
(* Properties of hit resolution (SpecReaction)                             *)
(***************************************************************************)
HitTarget == last.target
HealthLost(before, after) == before.health - after.health

\* C1 (reaction exclusivity): when a projectile hit meets a (status, element)
\* pair of the reaction table, the target loses exactly the reaction's output,
\* capped by its remaining health: 3 x base for melt, floor(1.5 x base) for the
\* epicentre of an explosion, nothing for freeze; the raw damage is not added.
C1_ReactionExclusivity ==
  (last.op = "hit" /\ last.reaction # None) =>
    LET before == last.pre[HitTarget]
        formula == CASE last.reaction = "melt"      -> 3 * last.damage
                     [] last.reaction = "explosion" -> (3 * last.damage) \div 2
                     [] last.reaction = "freeze"    -> 0
    IN  /\ <<before.status, last.element>> \in
             {<<"ice", "fire">>, <<"ice", "lightning">>, <<"oil", "fire">>}
        /\ HealthLost(before, enemies[HitTarget]) = Min(before.health, formula)

C1_Witness ==
  /\ last.op = "hit"
  /\ last.reaction = "explosion"
  /\ HealthLost(last.pre[HitTarget], enemies[HitTarget]) = (3 * last.damage) \div 2
  /\ enemies[HitTarget].isAlive

\* C2 (Enemy.takeDamage): a physical attack removes the nominal damage whatever
\* the resistance; a non-physical attack of the resisted element removes exactly
\* 1 and returns 1; any other attack removes the nominal damage; health is
\* clamped at 0 and the enemy is alive afterwards exactly when health is above 0.
C2_TakeDamageContract ==
  (last.op = "hit" /\ last.reaction = None) =>
    LET before == last.mid[HitTarget]
        after == enemies[HitTarget]
        applied == IF last.element = "physical" THEN last.damage
                   ELSE IF before.resistance = last.element THEN 1
                   ELSE last.damage
    IN  /\ after.health = Max(0, before.health - applied)
        /\ last.ret = applied
        /\ after.isAlive = (after.health > 0)

C2_Witness ==
  /\ last.op = "hit"
  /\ last.reaction = None
  /\ last.mid[HitTarget].resistance = last.element
  /\ last.damage > 1
  /\ HealthLost(last.mid[HitTarget], enemies[HitTarget]) = 1
  /\ last.ret = 1

\* C3 (resistance in hit resolution): every hit whose non-physical element is
\* the target's resistance removes the minimal value 1, reactions included.
C3_ResistedHitDealsOne ==
  (/\ last.op = "hit"
   /\ last.element # "physical"
   /\ last.pre[HitTarget].resistance = last.element) =>
    HealthLost(last.pre[HitTarget], enemies[HitTarget]) = 1

\* C4 (status overwrite): on a target with no status, or a status that forms no
\* reaction with the incoming element, checkAndTriggerReaction returns null,
\* leaves the status equal to the incoming element and does not touch health.
C4_StatusOverwrite ==
  (/\ last.op = "hit"
   /\ <<last.pre[HitTarget].status, last.element>> \notin
        {<<"ice", "fire">>, <<"ice", "lightning">>, <<"oil", "fire">>}) =>
    /\ last.reaction = None
    /\ last.mid[HitTarget].status = last.element
    /\ last.mid[HitTarget].health = last.pre[HitTarget].health
    /\ \A j \in EnemyIds \ {HitTarget} : last.mid[j] = last.pre[j]

C4_Witness ==
  /\ last.op = "hit"
  /\ last.pre[HitTarget].status = "oil"
  /\ last.element = "ice"
  /\ last.mid[HitTarget].status = "ice"

(***************************************************************************)
(* Specification of targeting: one tower beside route 0, three enemies     *)
(* walking the route, being killed, and the tower's per-frame update       *)
(***************************************************************************)
\* route 0 (PathSystem.getRoute0Waypoints), sampled at these of its path cells
Route0Cells == << <<0, 2>>, <<2, 2>>, <<5, 2>>, <<5, 4>>, <<5, 6>>, <<7, 6>>, <<7, 7>> >>
Route0 == [k \in 1..Len(Route0Cells) |-> CellCenter(Route0Cells[k][1], Route0Cells[k][2])]

\* the enemy types of the three walkers, in spawn order
WalkerTypes == { <<"normal", "tank", "normal">>, <<"tank", "normal", "tank">>,
                 <<"normal", "ghost", "boss">> }

InitTarget ==
  /\ \E types \in WalkerTypes :
       enemies = [i \in 1..3 |->
                    [NewEnemy(types[i], WaveNumber, None, Route0[1]) EXCEPT !.pathIndex = 1]]
  /\ towers = << NewTower(3, 4, "physical", 1) >>
  /\ projectiles = <<>>
  /\ spellUsage = 0
  /\ occupied = OccupiedBy(towers)
  /\ rewardLoop = NoRewardCall
  /\ game = NoGame
  /\ now = 0
  /\ steps = 0
  /\ last = [ op |-> "init", tower |-> 0, before |-> 0, projectile |-> None ]

\* Enemy.followPath over the frames that take enemy i to the next sampled cell;
\* at the last cell it has reached the goal and Game.update marks it dead
EnemyAdvance(i) ==
  /\ enemies[i].isAlive
  /\ enemies[i].pathIndex < Len(Route0)
  /\ enemies' = [enemies EXCEPT ![i].pathIndex = @ + 1,
                                ![i].pos = Route0[enemies[i].pathIndex + 1],
                                ![i].isAlive = enemies[i].pathIndex + 1 < Len(Route0)]
  /\ last' = [ op |-> "advance", tower |-> 0, before |-> 0, projectile |-> None ]
  /\ UNCHANGED <<towers, projectiles, spellUsage, now, steps, occupied, rewardLoop, game>>

\* enemy i takes a lethal hit
EnemyKilled(i) ==
  /\ enemies[i].isAlive
  /\ enemies' = [enemies EXCEPT ![i] = TakeDamage(@, @.health, "physical").enemy]
  /\ last' = [ op |-> "killed", tower |-> 0, before |-> 0, projectile |-> None ]
  /\ UNCHANGED <<towers, projectiles, spellUsage, now, steps, occupied, rewardLoop, game>>

\* Game.update, the tower loop body for tower k: findTarget, then tryFire
TowerUpdate(k) ==
  /\ steps < MaxFrames
  /\ towers[k].isAlive
  /\ LET found == FindTarget(towers[k], enemies)
         fired == TryFire(found, enemies, now + FrameMs)
     IN  /\ towers' = [towers EXCEPT ![k] = fired.tower]
         /\ last' = [ op |-> "towerUpdate", tower |-> k,
                      before |-> towers[k].currentTarget,
                      projectile |-> fired.projectile ]
  /\ now' = now + FrameMs
  /\ steps' = steps + 1
  /\ UNCHANGED <<enemies, projectiles, spellUsage, occupied, rewardLoop, game>>

NextTarget ==
  \/ \E i \in DOMAIN enemies : EnemyAdvance(i)
  \/ \E i \in DOMAIN enemies : EnemyKilled(i)
  \/ \E k \in DOMAIN towers : TowerUpdate(k)

SpecTarget == InitTarget /\ [][NextTarget]_vars

(***************************************************************************)
(* Properties of targeting (SpecTarget)                                    *)
(***************************************************************************)
Priority(e) == EnemyTypeConfig(e.type).priority
\* the live enemies within the tower's range
Candidates(tw, es) == {j \in DOMAIN es : es[j].isAlive /\ IsInRange(tw, es[j])}

\* C5 (target stickiness): a tower whose target is alive and within range, and
\* stays so, has the same target after any step; a better enemy in range does
\* not take its place.
C5_TargetStickiness ==
  [][ \A k \in DOMAIN towers :
        LET cur == towers[k].currentTarget IN
        ( /\ cur # 0
          /\ cur \in Candidates(towers[k], enemies)
          /\ cur \in Candidates(towers'[k], enemies') )
        => towers'[k].currentTarget = cur ]_vars

C5_Witness ==
  /\ last.op = "towerUpdate"
  /\ last.before # 0
  /\ towers[last.tower].currentTarget = last.before
  /\ \E j \in Candidates(towers[last.tower], enemies) :
       /\ Priority(enemies[j]) > Priority(enemies[last.before])
       /\ Dist2(enemies[j].pos, towers[last.tower].pos)
            < Dist2(enemies[last.before].pos, towers[last.tower].pos)

\* C6 (target selection): an update that starts without a live in-range target
\* ends with a live in-range enemy of maximal priority and, among those, of
\* minimal distance; it ends with no target exactly when no live enemy is in range.
C6_TargetSelection ==
  ( /\ last.op = "towerUpdate"
    /\ last.before \notin Candidates(towers[last.tower], enemies) ) =>
    LET tw == towers[last.tower]
        cand == Candidates(tw, enemies)
        t == tw.currentTarget
    IN  IF cand = {} THEN t = 0
        ELSE /\ t \in cand
             /\ \A j \in cand :
                  \/ Priority(enemies[j]) < Priority(enemies[t])
                  \/ /\ Priority(enemies[j]) = Priority(enemies[t])
                     /\ Dist2(enemies[t].pos, tw.pos) <= Dist2(enemies[j].pos, tw.pos)

C6_Witness ==
  /\ last.op = "towerUpdate"
  /\ last.before \notin Candidates(towers[last.tower], enemies)
  /\ towers[last.tower].currentTarget # 0
  /\ Cardinality(Candidates(towers[last.tower], enemies)) = 3
  /\ \E j \in Candidates(towers[last.tower], enemies) :
       /\ Priority(enemies[j]) < Priority(enemies[towers[last.tower].currentTarget])
       /\ Dist2(enemies[j].pos, towers[last.tower].pos)
            < Dist2(enemies[towers[last.tower].currentTarget].pos, towers[last.tower].pos)

(***************************************************************************)
(* Specification of projectile flight: the tower beside route 0 fires at   *)
(* two walkers (wave 1), which keep walking and can die mid-flight         *)
(***************************************************************************)
InitProjectile ==
  /\ enemies = CastOilBomb(
                 [i \in 1..2 |->
                    [NewEnemy(IF i = 1 THEN "normal" ELSE "ghost", 1, None, Route0[4 + i])
                       EXCEPT !.pathIndex = 4 + i]],
                 Route0[6])
  /\ towers = << NewTower(6, 5, "fire", 1) >>
  /\ projectiles = <<>>
  /\ spellUsage = 0
  /\ occupied = OccupiedBy(towers)
  /\ rewardLoop = NoRewardCall
  /\ game = NoGame
  /\ now = 0
  /\ steps = 0
  /\ last = [ op |-> "init" ]

\* Tower.tryFire creating a projectile for tower k aimed at enemy i, which is
\* alive and within range at that moment; Game.update appends it to the list.
\* The previous projectile, already filtered out of the list, is dropped.
Fire(k, i) ==
  /\ steps < MaxShots
  /\ \A j \in DOMAIN projectiles : ~projectiles[j].listed
  /\ i \in Candidates(towers[k], enemies)
  /\ projectiles' = << NewProjectile(towers[k].pos, enemies,
                       [ target |-> i, element |-> towers[k].element,
                         speed |-> ProjectileSpeed, size |-> 6,
                         damage |-> EffectiveDamage(towers[k]) ]) >>
  /\ steps' = steps + 1
  /\ last' = [ op |-> "fire", k |-> 1 ]
  /\ UNCHANGED <<enemies, towers, spellUsage, now, occupied, rewardLoop, game>>

\* Game.update, the projectile loop body for listed projectile k: update(), the
\* evasion roll and hit resolution, and the end-of-frame filter on isActive
ProjectileStepMutantDamageBeforeRoll(k, isCritical, evaded) ==
  /\ k \in DOMAIN projectiles
  /\ projectiles[k].listed
  /\ \E r \in { ProjectileUpdate(projectiles[k], enemies, isCritical) } :
       /\ projectiles' = [projectiles EXCEPT ![k] =
            [r.projectile EXCEPT !.listed = r.projectile.isActive,
                                 !.hitsReported = @ + (IF r.hit = NoHit THEN 0 ELSE 1)]]
       /\ IF r.hit = NoHit
          THEN /\ ~isCritical /\ ~evaded
               /\ UNCHANGED enemies
          ELSE /\ IF evaded THEN EnemyTypeConfig(enemies[r.hit.target].type).evasionPct > 0
                           ELSE EnemyTypeConfig(enemies[r.hit.target].type).evasionPct < 100
               /\ enemies' = ResolveHit(enemies, r.hit.target, r.hit.element,
                                        r.hit.damage, now).enemies
       /\ last' = [ op |-> "update", k |-> k, hit |-> r.hit # NoHit,
                    before |-> projectiles[k], targetAlive |-> enemies[projectiles[k].target].isAlive,
                    evaded |-> evaded, pre |-> enemies ]
  /\ UNCHANGED <<towers, spellUsage, now, steps, occupied, rewardLoop, game>>

\* the loop body as the code has it: an evaded hit skips reaction and damage
ProjectileStep(k, isCritical, evaded) ==
  /\ k \in DOMAIN projectiles
  /\ projectiles[k].listed
  /\ \E r \in { ProjectileUpdate(projectiles[k], enemies, isCritical) } :
       /\ projectiles' = [projectiles EXCEPT ![k] =
            [r.projectile EXCEPT !.listed = r.projectile.isActive,
                                 !.hitsReported = @ + (IF r.hit = NoHit THEN 0 ELSE 1)]]
       /\ IF r.hit = NoHit
          THEN /\ ~isCritical /\ ~evaded
               /\ UNCHANGED enemies
          ELSE /\ IF evaded THEN EnemyTypeConfig(enemies[r.hit.target].type).evasionPct > 0
                           ELSE EnemyTypeConfig(enemies[r.hit.target].type).evasionPct < 100
               /\ enemies' = IF evaded THEN enemies
                             ELSE ResolveHit(enemies, r.hit.target, r.hit.element,
                                             r.hit.damage, now).enemies
       /\ last' = [ op |-> "update", k |-> k, hit |-> r.hit # NoHit,
                    before |-> projectiles[k], targetAlive |-> enemies[projectiles[k].target].isAlive,
                    evaded |-> evaded, pre |-> enemies ]
  /\ UNCHANGED <<towers, spellUsage, now, steps, occupied, rewardLoop, game>>

\* Projectile.update() called on projectile k after it left Game.projectiles
UpdateRemoved(k) ==
  /\ k \in DOMAIN projectiles
  /\ ~projectiles[k].listed
  /\ last.op # "updateRemoved"
  /\ \E r \in { ProjectileUpdate(projectiles[k], enemies, FALSE) } :
       /\ projectiles' = [projectiles EXCEPT ![k] =
            [r.projectile EXCEPT !.listed = FALSE,
                                 !.hitsReported = @ + (IF r.hit = NoHit THEN 0 ELSE 1)]]
       /\ last' = [ op |-> "updateRemoved", k |-> k, hit |-> r.hit # NoHit,
                    before |-> projectiles[k], targetAlive |-> enemies[projectiles[k].target].isAlive ]
  /\ UNCHANGED <<enemies, towers, spellUsage, now, steps, occupied, rewardLoop, game>>

NextProjectile ==
  \/ \E i \in DOMAIN enemies : EnemyAdvance(i)
  \/ \E i \in DOMAIN enemies : EnemyKilled(i)
  \/ \E k \in DOMAIN towers, i \in DOMAIN enemies : Fire(k, i)
  \/ \E k \in DOMAIN projectiles, c \in BOOLEAN, e \in BOOLEAN : ProjectileStep(k, c, e)
  \/ \E k \in DOMAIN projectiles : UpdateRemoved(k)

SpecProjectile == InitProjectile /\ [][NextProjectile]_vars

\* what the projectile loop body does to a listed projectile: the steps of
\* NextProjectile that satisfy it are the ProjectileStep steps
ProjectileTick ==
  \E k \in DOMAIN projectiles, c \in BOOLEAN :
    /\ projectiles[k].listed
    /\ \E r \in { ProjectileUpdate(projectiles[k], enemies, c) } :
         projectiles' = [projectiles EXCEPT ![k] =
            [r.projectile EXCEPT !.listed = r.projectile.isActive,
                                 !.hitsReported = @ + (IF r.hit = NoHit THEN 0 ELSE 1)]]

\* every frame of the game loop updates every listed projectile
SpecProjectileFair == SpecProjectile /\ WF_projectiles(ProjectileTick)

(***************************************************************************)
(* Claims about projectiles                                                *)
(***************************************************************************)
\* the last operation was a Projectile.update() call
UpdateCalled == last.op \in {"update", "updateRemoved"}

\* C7: a projectile reports at most one hit in its lifetime: the update() that
\* returns a hit leaves isActive false, and update() on an inactive projectile
\* returns null, does not move the projectile and reports no hit.
C7_AtMostOneHit ==
  /\ \A k \in DOMAIN projectiles : projectiles[k].hitsReported <= 1
  /\ UpdateCalled =>
       /\ last.hit => ~projectiles[last.k].isActive
       /\ ~last.before.isActive =>
            /\ ~last.hit
            /\ projectiles[last.k].pos = last.before.pos
            /\ projectiles[last.k].velocity = last.before.velocity
            /\ ~projectiles[last.k].isActive

\* an inactive projectile that had reported its hit was updated again
C7_Witness ==
  /\ last.op = "updateRemoved"
  /\ ~last.before.isActive
  /\ projectiles[last.k].hitsReported = 1

\* the last operation ticked an active projectile whose target was dead
DeadTargetTick == last.op = "update" /\ last.before.isActive /\ ~last.targetAlive

\* C8: a tick of a projectile whose target is dead keeps the velocity, moves
\* the projectile by it, reports no hit and deactivates the projectile only
\* when it has left the playfield by more than the margin; and every active
\* projectile is eventually inactive.
C8_DeadTargetFlight ==
  /\ [](DeadTargetTick =>
          /\ projectiles[last.k].velocity = last.before.velocity
          /\ projectiles[last.k].pos = << last.before.pos[1] + last.before.velocity[1],
                                          last.before.pos[2] + last.before.velocity[2] >>
          /\ ~last.hit
          /\ projectiles[last.k].hitsReported = last.before.hitsReported
          /\ projectiles[last.k].isActive = ~IsOutOfBounds(projectiles[last.k].pos))
  /\ (projectiles # <<>> /\ projectiles[1].isActive)
       ~> (projectiles # <<>> /\ ~projectiles[1].isActive)

\* a projectile whose target died in flight left the playfield without a hit,
\* after at least one tick on which it stayed active
C8_Witness ==
  /\ DeadTargetTick
  /\ ~projectiles[last.k].isActive
  /\ projectiles[last.k].hitsReported = 0
  /\ IsOutOfBounds(projectiles[last.k].pos)
  /\ ~IsOutOfBounds(last.before.pos)

\* PathSystem.getRoute0Waypoints() .. getRoute3Waypoints()
RouteWaypoints ==
  << << <<0, 0>>, <<0, 2>>, <<5, 2>>, <<5, 6>>, <<7, 6>>, <<7, 7>> >>,
     << <<0, 14>>, <<0, 12>>, <<5, 12>>, <<5, 8>>, <<7, 8>>, <<7, 7>> >>,
     << <<14, 0>>, <<14, 2>>, <<9, 2>>, <<9, 6>>, <<7, 6>>, <<7, 7>> >>,
     << <<14, 14>>, <<14, 12>>, <<9, 12>>, <<9, 8>>, <<7, 8>>, <<7, 7>> >> >>

\* the integers from a to b, whichever is larger
Between(a, b) == Min(a, b)..Max(a, b)

\* the cells generatePath adds between two waypoints: along the start column
\* to the end row, then along the end row to the end column
SegmentCells(start, end) ==
  { <<r, start[2]>> : r \in Between(start[1], end[1]) }
    \cup { <<end[1], c>> : c \in Between(start[2], end[2]) }

\* PathSystem.pathCells after the four generatePath calls
PathCells ==
  UNION { SegmentCells(RouteWaypoints[r][i], RouteWaypoints[r][i + 1]) :
            r \in DOMAIN RouteWaypoints, i \in 1..5 }

\* PathSystem.isPathCell / isBaseCell
IsPathCell(row, col) == <<row, col>> \in PathCells
BaseCell == <<7, 7>>
IsBaseCell(row, col) == <<row, col>> = BaseCell

\* GridSystem.getGridPosition(): null is NoCell
NoCell == <<-1, -1>>
GetGridPosition(pixelX, pixelY) ==
  LET col == pixelX \div GridSize
      row == pixelY \div GridSize
  IN  IF row < 0 \/ row >= GridRows \/ col < 0 \/ col >= GridCols THEN NoCell
      ELSE <<row, col>>

\* GridSystem.canPlaceTower(); cell.isPath was set from isPathCell || isBaseCell
CanPlaceTowerMutantIgnorePath(row, col, occ) ==
  IF row < 0 \/ row >= GridRows \/ col < 0 \/ col >= GridCols THEN FALSE
  ELSE <<row, col>> \notin occ

CanPlaceTower(row, col, occ) ==
  IF row < 0 \/ row >= GridRows \/ col < 0 \/ col >= GridCols THEN FALSE
  ELSE ~(IsPathCell(row, col) \/ IsBaseCell(row, col)) /\ <<row, col>> \notin occ

(***************************************************************************)
(* Specification SpecSynergy: towers are placed, merged and destroyed on a *)
(* few free cells, two of them on opposite board edges of one row.         *)
(***************************************************************************)
\* drop cells (row, col), none of them on a route
TowerCells == { <<6, 0>>, <<6, 1>>, <<7, 1>>, <<6, 14>> }

\* card elements dropped on the board
CardElements == { "fire", "ice", "lightning" }

\* Game.getTowerAt(row, col): the index of the first tower in the cell, 0 = undefined
GetTowerAt(ts, row, col) ==
  LET at == { k \in DOMAIN ts : ts[k].gridRow = row /\ ts[k].gridCol = col }
  IN  IF at = {} THEN 0 ELSE CHOOSE k \in at : \A j \in at : k <= j

\* this.towers.filter(...) dropping the tower at index k
RemoveAt(ts, k) == SubSeq(ts, 1, k - 1) \o SubSeq(ts, k + 1, Len(ts))

InitSynergy ==
  /\ enemies = <<>>
  /\ towers = <<>>
  /\ projectiles = <<>>
  /\ spellUsage = 0
  /\ occupied = OccupiedBy(towers)
  /\ rewardLoop = NoRewardCall
  /\ game = NoGame
  /\ now = 0
  /\ steps = 0
  /\ last = [ op |-> "init", mid |-> <<>> ]

\* Game.handleTowerDrop(card, x, y) for a drop that consumes the card: the merge
\* into a level-1 tower of the card's element, or the placement on a free cell;
\* mid is the tower list when calculateAndApplySynergies is entered
HandleTowerDrop(cell, element) ==
  /\ LET existing == GetTowerAt(towers, cell[1], cell[2])
         mid == IF existing # 0
                  THEN [towers EXCEPT ![existing] = LevelUp(@)]
                ELSE Append(towers, NewTower(cell[1], cell[2], element, 1))
     IN  /\ IF existing # 0 THEN CanMergeWith(towers[existing], element, 1)
                            ELSE /\ Len(towers) < MaxTowers
                                 /\ CanPlaceTower(cell[1], cell[2], occupied)
         /\ towers' = CalculateAndApplySynergies(mid)
         /\ occupied' = IF existing # 0 THEN occupied ELSE occupied \cup {cell}
         /\ last' = [ op |-> "drop", mid |-> mid ]
  /\ UNCHANGED <<enemies, projectiles, spellUsage, now, steps, rewardLoop, game>>

\* tower k destroyed by an enemy attack: Tower.takeDamage, then
\* Game.handleTowerDestruction over the towers still alive, then the filter of
\* Game.update
HandleTowerDestructionMutantNoRecompute(k) ==
  /\ k \in DOMAIN towers
  /\ LET mid == RemoveAt(towers, k) IN
       /\ towers' = mid
       /\ occupied' = occupied \ { <<towers[k].gridRow, towers[k].gridCol>> }
       /\ last' = [ op |-> "destroy", mid |-> mid ]
  /\ UNCHANGED <<enemies, projectiles, spellUsage, now, steps, rewardLoop, game>>

\* tower k destroyed by an enemy attack: Tower.takeDamage, then
\* Game.handleTowerDestruction over the towers still alive, then the filter of
\* Game.update
HandleTowerDestruction(k) ==
  /\ k \in DOMAIN towers
  /\ LET mid == RemoveAt(towers, k) IN
       /\ towers' = CalculateAndApplySynergies(mid)
       /\ occupied' = occupied \ { <<towers[k].gridRow, towers[k].gridCol>> }
       /\ last' = [ op |-> "destroy", mid |-> mid ]
  /\ UNCHANGED <<enemies, projectiles, spellUsage, now, steps, rewardLoop, game>>

\* the direction loop of previewSynergies over Directions[d..]: the existing
\* neighbours whose number of synergies would change
RECURSIVE AffectedTowersMutantEveryNeighbour(_, _, _, _, _)
AffectedTowersMutantEveryNeighbour(gridRow, gridCol, existingTowers, towerMap, d) ==
  IF d > Len(Directions) THEN <<>>
  ELSE LET adjTower == GetTowerAt(existingTowers, gridRow + Directions[d][1],
                                  gridCol + Directions[d][2])
           rest == AffectedTowersMutantEveryNeighbour(gridRow, gridCol, existingTowers,
                                                      towerMap, d + 1)
       IN  IF adjTower = 0 THEN rest
           ELSE << [ tower |-> adjTower,
                     newSynergies |->
                       CalculateSynergiesForTower(existingTowers[adjTower], towerMap) ] >>
                  \o rest

RECURSIVE AffectedTowers(_, _, _, _, _)
AffectedTowers(gridRow, gridCol, existingTowers, towerMap, d) ==
  IF d > Len(Directions) THEN <<>>
  ELSE LET adjTower == GetTowerAt(existingTowers, gridRow + Directions[d][1],
                                  gridCol + Directions[d][2])
           rest == AffectedTowers(gridRow, gridCol, existingTowers, towerMap, d + 1)
       IN  IF adjTower = 0 THEN rest
           ELSE LET newSynergies ==
                      CalculateSynergiesForTower(existingTowers[adjTower], towerMap)
                IN  IF Len(newSynergies) # Len(existingTowers[adjTower].activeSynergies)
                      THEN << [ tower |-> adjTower, newSynergies |-> newSynergies ] >> \o rest
                    ELSE rest

\* the temporary tower of previewSynergies, set in the map under its cell's key
TempTower(element, gridRow, gridCol) ==
  [ gridRow |-> gridRow, gridCol |-> gridCol, element |-> element ]

\* towers[n..] with the previewed synergies stored in the affected towers
RECURSIVE ApplyAffected(_, _, _)
ApplyAffected(ts, affected, n) ==
  IF n > Len(affected) THEN ts
  ELSE ApplyAffected([ts EXCEPT ![affected[n].tower] =
                         SetSynergies(@, affected[n].newSynergies)],
                     affected, n + 1)

\* SynergySystem.previewSynergies(element, gridRow, gridCol, existingTowers);
\* towers = the array existingTowers when the call returns
PreviewSynergiesMutantApply(element, gridRow, gridCol, existingTowers) ==
  LET tempTower == TempTower(element, gridRow, gridCol)
      towerMap  == existingTowers \o << tempTower >>
      affected  == AffectedTowers(gridRow, gridCol, existingTowers, towerMap, 1)
  IN  [ newTowerSynergies |-> CalculateSynergiesForTower(tempTower, towerMap),
        affectedTowers |-> affected,
        towers |-> ApplyAffected(existingTowers, affected, 1) ]

PreviewSynergies(element, gridRow, gridCol, existingTowers) ==
  LET tempTower == TempTower(element, gridRow, gridCol)
      towerMap  == existingTowers \o << tempTower >>
  IN  [ newTowerSynergies |-> CalculateSynergiesForTower(tempTower, towerMap),
        affectedTowers |-> AffectedTowers(gridRow, gridCol, existingTowers, towerMap, 1),
        towers |-> existingTowers ]

NextSynergy ==
  \/ \E cell \in TowerCells, element \in CardElements : HandleTowerDrop(cell, element)
  \/ \E k \in 1..MaxTowers : HandleTowerDestruction(k)

SpecSynergy == InitSynergy /\ [][NextSynergy]_vars

(***************************************************************************)
(* Claims about synergies                                                  *)
(***************************************************************************)
Abs(n) == IF n < 0 THEN -n ELSE n

\* towers a and b stand in cells that share an edge
Orthogonal(a, b) == Abs(a.gridRow - b.gridRow) + Abs(a.gridCol - b.gridCol) = 1

\* towers a and b stand in cells that share only a corner
Diagonal(a, b) == Abs(a.gridRow - b.gridRow) = 1 /\ Abs(a.gridCol - b.gridCol) = 1

Neighbours(k) == { j \in DOMAIN towers : Orthogonal(towers[k], towers[j]) }

HasSynergy(tw, type) == \E n \in DOMAIN tw.activeSynergies : tw.activeSynergies[n] = type

\* equality of two multipliers as numbers
SameMultiplier(a, b) == a[1] * b[2] = b[1] * a[2]

\* C9: after a recompute a synergy is active on a tower iff the tower has the
\* synergy's source element and a tower in one of the four cells sharing an edge
\* with it has the required element; an ice tower whose neighbours are all fire
\* towers has no synergy and multiplier 1, while a fire tower next to an ice
\* tower has fire_ice and multiplier 2.
C9_SynergyAsymmetry ==
  \A k \in DOMAIN towers :
    /\ \A n \in DOMAIN SynergyTypes :
         HasSynergy(towers[k], SynergyTypes[n])
           <=> /\ towers[k].element = SynergyConfig(SynergyTypes[n]).sourceElement
               /\ \E j \in Neighbours(k) :
                    towers[j].element = SynergyConfig(SynergyTypes[n]).requiredElement
    /\ ( /\ towers[k].element = "ice"
         /\ \A j \in Neighbours(k) : towers[j].element = "fire" )
         => /\ towers[k].activeSynergies = <<>>
            /\ SameMultiplier(towers[k].synergyDamageMultiplier, <<1, 1>>)
    /\ ( /\ towers[k].element = "fire"
         /\ \E j \in Neighbours(k) : towers[j].element = "ice" )
         => /\ towers[k].activeSynergies = << "fire_ice" >>
            /\ SameMultiplier(towers[k].synergyDamageMultiplier, <<2, 1>>)

\* an ice tower whose only neighbour is a fire tower, and a fire tower that has
\* an ice tower on a diagonal but none on an edge
C9_Witness ==
  /\ \E k \in DOMAIN towers :
       /\ towers[k].element = "ice"
       /\ Cardinality(Neighbours(k)) = 1
       /\ \A j \in Neighbours(k) : towers[j].element = "fire" /\ HasSynergy(towers[j], "fire_ice")
       /\ towers[k].activeSynergies = <<>>
  /\ \E k \in DOMAIN towers, j \in DOMAIN towers :
       /\ towers[k].element = "fire" /\ towers[j].element = "ice"
       /\ Diagonal(towers[k], towers[j])
       /\ towers[k].activeSynergies = <<>>

\* C10: a second calculateAndApplySynergies on the unchanged tower list leaves
\* every tower's activeSynergies and synergyDamageMultiplier as the first run
\* left them, whatever synergy state the towers had when the first run began.
C10_IdempotentRecompute ==
  last.op \in {"drop", "destroy"} =>
    LET first  == CalculateAndApplySynergies(last.mid)
        second == CalculateAndApplySynergies(first)
    IN  /\ towers = first
        /\ DOMAIN second = DOMAIN first
        /\ \A k \in DOMAIN first :
             /\ second[k].activeSynergies = first[k].activeSynergies
             /\ second[k].synergyDamageMultiplier = first[k].synergyDamageMultiplier

\* the first run began from a synergy state that was out of date: it removed a
\* synergy from one tower, and another tower keeps a synergy it already had
C10_Witness ==
  /\ last.op = "destroy"
  /\ \E k \in DOMAIN towers :
       /\ last.mid[k].activeSynergies # <<>>
       /\ towers[k].activeSynergies = <<>>
  /\ \E k \in DOMAIN towers :
       /\ last.mid[k].activeSynergies # <<>>
       /\ towers[k].activeSynergies = last.mid[k].activeSynergies

\* the product of the multipliers of the synergies SynergyTypes[n..] that the
\* towers now on the board imply for tower k
RECURSIVE ImpliedMultiplier(_, _)
ImpliedMultiplier(k, n) ==
  IF n > Len(SynergyTypes) THEN <<1, 1>>
  ELSE LET cfg  == SynergyConfig(SynergyTypes[n])
           rest == ImpliedMultiplier(k, n + 1)
       IN  IF /\ towers[k].element = cfg.sourceElement
              /\ \E j \in Neighbours(k) : towers[j].element = cfg.requiredElement
             THEN << cfg.damageMultiplier[1] * rest[1], cfg.damageMultiplier[2] * rest[2] >>
           ELSE rest

\* C11: after every placement, merge and destruction each tower's
\* synergyDamageMultiplier is the product of the synergies implied by the towers
\* now on the board, and its effective damage is
\* floor(base damage of its element * level * that product).
C11_SynergyCacheCoherence ==
  \A k \in DOMAIN towers :
    LET implied == ImpliedMultiplier(k, 1) IN
      /\ towers[k].isAlive
      /\ SameMultiplier(towers[k].synergyDamageMultiplier, implied)
      /\ EffectiveDamage(towers[k])
           = (ElementBaseDamage(towers[k].element) * towers[k].level * implied[1]) \div implied[2]

\* a level-2 tower lost its synergy because the neighbour granting it was destroyed
C11_Witness ==
  /\ last.op = "destroy"
  /\ \E k \in DOMAIN towers :
       /\ towers[k].level = 2
       /\ ~SameMultiplier(last.mid[k].synergyDamageMultiplier, <<1, 1>>)
       /\ SameMultiplier(towers[k].synergyDamageMultiplier, <<1, 1>>)
       /\ EffectiveDamage(towers[k]) = 2 * ElementBaseDamage(towers[k].element)

(***************************************************************************)
(* Claims about the evasion roll (SpecProjectile)                          *)
(***************************************************************************)
\* the last operation was a tick of a listed projectile that reported a hit
\* which its target evaded
EvadedHit == last.op = "update" /\ last.hit /\ last.evaded

\* C12: the evasion roll is made only for a reported hit; when it succeeds no
\* enemy's health, status or freeze state changes, no reaction fires, and the
\* projectile is consumed all the same; an enemy with evasion chance 0 never
\* evades.
C12_EvasionOrdering ==
  last.op = "update" =>
    /\ last.evaded => last.hit
    /\ EvadedHit =>
         /\ enemies = last.pre
         /\ ~projectiles[last.k].isActive
         /\ ~projectiles[last.k].listed
         /\ projectiles[last.k].hitsReported = 1
         /\ EnemyTypeConfig(enemies[last.before.target].type).evasionPct > 0

\* an oil-tagged ghost evaded a fire projectile that would have exploded it
C12_Witness ==
  /\ EvadedHit
  /\ last.before.element = "fire"
  /\ enemies[last.before.target].status = "oil"
  /\ enemies[last.before.target].isAlive
  /\ MatchingReaction(enemies[last.before.target].status, "fire") = "explosion"

(***************************************************************************)
(* Specification SpecPreview: cards dropped on the board and cards dragged *)
(* over it.                                                                *)
(***************************************************************************)
\* a card dropped while the board holds fewer than MaxPreviewTowers towers
PreviewDrop(cell, element) ==
  /\ Len(towers) < MaxPreviewTowers \/ GetTowerAt(towers, cell[1], cell[2]) # 0
  /\ HandleTowerDrop(cell, element)

\* a card dragged over a cell: previewSynergies on the current towers
PreviewCall(cell, element) ==
  /\ \E r \in { PreviewSynergies(element, cell[1], cell[2], towers) } :
       /\ towers' = r.towers
       /\ last' = [ op |-> "preview", mid |-> towers, pre |-> towers,
                    newTowerSynergies |-> r.newTowerSynergies,
                    affectedTowers |-> r.affectedTowers,
                    cell |-> cell, element |-> element ]
  /\ UNCHANGED <<enemies, projectiles, spellUsage, now, steps, occupied, rewardLoop, game>>

NextPreview ==
  \/ \E cell \in TowerCells, element \in CardElements : PreviewDrop(cell, element)
  \/ \E cell \in TowerCells, element \in CardElements : PreviewCall(cell, element)

SpecPreview == InitSynergy /\ [][NextPreview]_vars

\* C17: previewSynergies changes neither the tower list nor any field of an
\* existing tower, whatever the element, the cell and the towers on the board.
C17_PreviewNonMutating ==
  last.op = "preview" => towers = last.pre

\* a preview that found synergies for the new tower and a neighbour whose
\* synergies would change, and one over a cell that already holds a tower
C17_Witness ==
  /\ last.op = "preview"
  /\ last.newTowerSynergies # <<>>
  /\ last.affectedTowers # <<>>
  /\ \E k \in DOMAIN towers : towers[k].activeSynergies # <<>>

(***************************************************************************)
(* Specification SpecPlace: tower cards dropped at canvas points, accepted *)
(* or rejected, and towers destroyed.                                      *)
(***************************************************************************)
\* Game.handleTowerDrop(card, canvasX, canvasY) with its rejections: ret = the
\* value returned, towers and occupied = Game.towers and the grid's occupied
\* cells when it returns
TowerDrop(ts, occ, element, canvasX, canvasY) ==
  LET gridPos  == GetGridPosition(canvasX, canvasY)
      rejected == [ ret |-> FALSE, towers |-> ts, occupied |-> occ ]
  IN  IF gridPos = NoCell THEN rejected
      ELSE LET existingTower == GetTowerAt(ts, gridPos[1], gridPos[2]) IN
        IF existingTower # 0
          THEN IF CanMergeWith(ts[existingTower], element, 1)
                 THEN [ ret |-> TRUE,
                        towers |-> CalculateAndApplySynergies(
                                     [ts EXCEPT ![existingTower] = LevelUp(@)]),
                        occupied |-> occ ]
               ELSE rejected
        ELSE IF ~CanPlaceTower(gridPos[1], gridPos[2], occ) THEN rejected
        ELSE [ ret |-> TRUE,
               towers |-> CalculateAndApplySynergies(
                            Append(ts, NewTower(gridPos[1], gridPos[2], element, 1))),
               occupied |-> occ \cup {gridPos} ]

\* canvas points of the drops: cells (6,0), (6,1) off its centre, (7,1), the
\* path cell (2,2), the base cell, and points right of and below the grid
DropPoints == { <<20, 260>>, <<79, 279>>, <<60, 300>>, <<100, 100>>, <<300, 300>>,
                <<600, 20>>, <<20, 600>> }

TowerCardDrop(point, element) ==
  /\ \E r \in { TowerDrop(towers, occupied, element, point[1], point[2]) } :
       /\ Len(r.towers) <= MaxTowers
       /\ towers' = r.towers
       /\ occupied' = r.occupied
       /\ last' = [ op |-> "cardDrop", ret |-> r.ret, pre |-> towers, mid |-> r.towers,
                    preOccupied |-> occupied, point |-> point, element |-> element ]
  /\ UNCHANGED <<enemies, projectiles, spellUsage, now, steps, rewardLoop, game>>

NextPlace ==
  \/ \E point \in DropPoints, element \in CardElements : TowerCardDrop(point, element)
  \/ \E k \in 1..MaxTowers : HandleTowerDestruction(k)

SpecPlace == InitSynergy /\ [][NextPlace]_vars

\* the cell under the last drop point, by the grid's geometry
DropCell == << last.point[2] \div GridSize, last.point[1] \div GridSize >>
DropOutsideGrid == DropCell[1] \notin 0..(GridRows - 1) \/ DropCell[2] \notin 0..(GridCols - 1)
DropOnPathOrBase == DropCell \in PathCells \cup {BaseCell}
DropOnUnmergeable ==
  \E k \in DOMAIN last.pre :
    /\ <<last.pre[k].gridRow, last.pre[k].gridCol>> = DropCell
    /\ ~(last.pre[k].element = last.element /\ last.pre[k].level = 1)
DropOnTower ==
  \E k \in DOMAIN last.pre : <<last.pre[k].gridRow, last.pre[k].gridCol>> = DropCell

\* C18: a tower-card drop on a path cell, on the base cell, outside the grid or
\* on a tower it cannot merge with returns false and changes neither the
\* towers nor the occupied cells; a successful placement adds exactly one tower
\* and marks exactly its cell occupied.
C18_InvalidPlacementAtomic ==
  last.op = "cardDrop" =>
    /\ (DropOutsideGrid \/ DropOnPathOrBase \/ DropOnUnmergeable) => ~last.ret
    /\ ~last.ret => towers = last.pre /\ occupied = last.preOccupied
    /\ (last.ret /\ ~DropOnTower) =>
         /\ Len(towers) = Len(last.pre) + 1
         /\ towers[Len(towers)].gridRow = DropCell[1]
         /\ towers[Len(towers)].gridCol = DropCell[2]
         /\ towers[Len(towers)].element = last.element
         /\ \A k \in DOMAIN last.pre :
              /\ towers[k].gridRow = last.pre[k].gridRow
              /\ towers[k].gridCol = last.pre[k].gridCol
              /\ towers[k].level = last.pre[k].level
         /\ DropCell \notin last.preOccupied
         /\ occupied = last.preOccupied \cup {DropCell}

\* a rejected drop on a path cell with towers on the board
C18_Witness ==
  /\ last.op = "cardDrop"
  /\ DropOnPathOrBase
  /\ ~last.ret
  /\ Len(towers) >= 2
  /\ \E k \in DOMAIN towers : towers[k].activeSynergies # <<>>

(***************************************************************************)
(* Specification SpecCc: Enemy.freeze and Enemy.applySlow called on one    *)
(* enemy at varying times.  Speeds are in thousandths of a pixel per frame, *)
(* slow multipliers in percent.                                            *)
(***************************************************************************)
\* ENEMY_TYPE_CONFIGS[type].baseSpeed
BaseSpeed(type) ==
  CASE type = "normal" -> 1500 [] type = "tank" -> 800 [] type = "breaker" -> 2000
    [] type = "ghost" -> 1200 [] type = "boss" -> 500

\* the movement fields the Enemy constructor sets besides those of NewEnemy
NewMovingEnemy(type, wave, resistance, pos) ==
  NewEnemy(type, wave, resistance, pos)
    @@ [ isSlowed |-> FALSE, slowEndTime |-> 0, slowMultiplier |-> 100,
         speed |-> BaseSpeed(type), baseSpeed |-> BaseSpeed(type) ]

\* Enemy.applySlow(duration, multiplier) at time t
ApplySlow(e, duration, multiplier, t) ==
  LET actualDuration == CcActualDuration(duration, EnemyTypeConfig(e.type).ccImmunityPct) IN
  IF actualDuration < MinCcDuration THEN e
  ELSE [e EXCEPT !.isSlowed = TRUE, !.slowEndTime = t + actualDuration,
                 !.slowMultiplier = multiplier,
                 !.speed = (e.baseSpeed * multiplier) \div 100]

\* nominal durations: the freeze reaction's 2000, the blizzard's 3000, and values
\* at and around the point where a fifth of the duration is the 200 ms floor
CcDurations == { 200, 999, 1000, 1001, 2000, 3000 }

\* slow multipliers in percent: the blizzard's 0.4
SlowMultipliers == { 40 }

\* milliseconds that pass between two calls
CcDelays == { 1, 400 }

InitCc ==
  /\ \E type \in { "normal", "boss" } :
       enemies = << NewMovingEnemy(type, WaveNumber, None, Origin) >>
  /\ towers = <<>>
  /\ projectiles = <<>>
  /\ spellUsage = 0
  /\ occupied = OccupiedBy(towers)
  /\ rewardLoop = NoRewardCall
  /\ game = NoGame
  /\ now = 0
  /\ steps = 0
  /\ last = [ op |-> "init", d |-> 0, t |-> 0, pre |-> enemies[1] ]

\* enemy.freeze(d) at the current time
FreezeCall(d) ==
  /\ steps < MaxCalls
  /\ enemies' = << Freeze(enemies[1], d, now) >>
  /\ last' = [ op |-> "freeze", d |-> d, t |-> now, pre |-> enemies[1] ]
  /\ steps' = steps + 1
  /\ UNCHANGED <<towers, projectiles, spellUsage, now, occupied, rewardLoop, game>>

\* enemy.applySlow(d, m) at the current time
SlowCall(d, m) ==
  /\ steps < MaxCalls
  /\ enemies' = << ApplySlow(enemies[1], d, m, now) >>
  /\ last' = [ op |-> "slow", d |-> d, t |-> now, pre |-> enemies[1] ]
  /\ steps' = steps + 1
  /\ UNCHANGED <<towers, projectiles, spellUsage, now, occupied, rewardLoop, game>>

\* Date.now() advances
TimePasses(dt) ==
  /\ steps < MaxCalls
  /\ now' = now + dt
  /\ last' = [ op |-> "time", d |-> 0, t |-> now, pre |-> enemies[1] ]
  /\ steps' = steps + 1
  /\ UNCHANGED <<enemies, towers, projectiles, spellUsage, occupied, rewardLoop, game>>

NextCc ==
  \/ \E d \in CcDurations : FreezeCall(d)
  \/ \E d \in CcDurations, m \in SlowMultipliers : SlowCall(d, m)
  \/ \E dt \in CcDelays : TimePasses(dt)

SpecCc == InitCc /\ [][NextCc]_vars

\* floor(d * (1 - ccImmunity)) over the reals
ExactCcDuration(d, e) == (d * (100 - EnemyTypeConfig(e.type).ccImmunityPct)) \div 100

\* C13: freeze(d) and applySlow(d, m) use floor(d * (1 - ccImmunity)); below
\* 200 ms the call changes no field of the enemy, otherwise the effect ends
\* exactly that long after the call.  A boss (ccImmunity 0.8) is frozen for
\* 400 ms by a nominal 2000 ms and not at all by a nominal 200 ms.
C13_CcReduction ==
  LET e == enemies[1]
      actual == ExactCcDuration(last.d, last.pre)
  IN  /\ last.op = "freeze" =>
           IF actual < 200 THEN e = last.pre
           ELSE e.isFrozen /\ e.status = "frozen" /\ e.freezeEndTime = last.t + actual
      /\ last.op = "slow" =>
           IF actual < 200 THEN e = last.pre
           ELSE e.isSlowed /\ e.slowEndTime = last.t + actual
      /\ (last.op = "freeze" /\ e.type = "boss" /\ last.d = 2000)
           => e.isFrozen /\ e.freezeEndTime = last.t + 400
      /\ (last.op = "freeze" /\ e.type = "boss" /\ last.d = 200) => e = last.pre

(***************************************************************************)
(* Claims about the explosion (SpecReaction)                               *)
(***************************************************************************)
\* the last operation was a projectile hit that triggered an explosion
Exploded == last.op = "hit" /\ last.reaction = "explosion"

\* floor(T * (1 - 0.5 * dist / radius)) for a whole number of pixels dist
FalloffAt(T, dist) == (T * (2 * ExplosionRadius - dist)) \div (2 * ExplosionRadius)

\* C14: an explosion with reaction damage T = floor(1.5 x base) takes
\* floor(T x (1 - 0.5 x dist / 80)) from every living enemy within 80 px of the
\* primary's centre (capped by its health): T at distance 0, half of T at
\* exactly 80 px; enemies further away and dead enemies lose nothing.
C14_ExplosionFalloff ==
  Exploded =>
    LET T == (3 * last.damage) \div 2
        centre == last.pre[last.target].pos
    IN  \A j \in DOMAIN enemies :
          LET d2 == Dist2(last.pre[j].pos, centre)
              lost == HealthLost(last.pre[j], enemies[j])
          IN  /\ (~last.pre[j].isAlive \/ d2 > ExplosionRadius * ExplosionRadius) => lost = 0
              /\ \A dist \in 0..ExplosionRadius :
                   (last.pre[j].isAlive /\ d2 = dist * dist)
                     => lost = Min(last.pre[j].health, FalloffAt(T, dist))
              /\ (last.pre[j].isAlive /\ d2 = 0) => lost = Min(last.pre[j].health, T)
              /\ (last.pre[j].isAlive /\ d2 = ExplosionRadius * ExplosionRadius)
                   => lost = Min(last.pre[j].health, T \div 2)

\* an explosion with a second living enemy exactly on the radius, which lost
\* half the reaction damage while the primary lost all of it
C14_Witness ==
  /\ Exploded
  /\ \E j \in DOMAIN enemies :
       /\ j # last.target
       /\ last.pre[j].isAlive
       /\ Dist2(last.pre[j].pos, last.pre[last.target].pos) = ExplosionRadius * ExplosionRadius
       /\ HealthLost(last.pre[j], enemies[j]) = ((3 * last.damage) \div 2) \div 2
       /\ HealthLost(last.pre[last.target], enemies[last.target]) = (3 * last.damage) \div 2

(***************************************************************************)
(* Specification SpecFire: Tower.findTarget and Tower.tryFire called on    *)
(* their own, so that tryFire meets targets that died or walked away since  *)
(* the tower last looked.                                                  *)
(***************************************************************************)
SilenceDuration == 3000

\* performance.timeOrigin: Date.now() is the frame timestamp plus this
DateNow(t) == TimeOrigin + t

\* Tower.applySilence(duration), t = Date.now()
ApplySilence(tw, duration, t) ==
  [tw EXCEPT !.isSilenced = TRUE, !.silenceEndTime = t + duration]

InitFire ==
  /\ enemies = [i \in 1..2 |->
                  [NewEnemy(IF i = 1 THEN "normal" ELSE "tank", WaveNumber, None, Route0[4])
                     EXCEPT !.pathIndex = 4]]
  /\ towers = << NewTower(3, 4, "physical", 1) >>
  /\ projectiles = <<>>
  /\ spellUsage = 0
  /\ occupied = OccupiedBy(towers)
  /\ rewardLoop = NoRewardCall
  /\ game = NoGame
  /\ now = 0
  /\ steps = 0
  /\ last = [ op |-> "init", tower |-> 0, before |-> 0, projectile |-> None ]

\* tower.findTarget(enemies)
FindTargetCall(k) ==
  /\ towers' = [towers EXCEPT ![k] = FindTarget(towers[k], enemies)]
  /\ towers'[k] # towers[k]
  /\ last' = [ op |-> "findTarget", tower |-> k, before |-> towers[k], projectile |-> None ]
  /\ UNCHANGED <<enemies, projectiles, spellUsage, now, steps, occupied, rewardLoop, game>>

\* tower.tryFire(currentTime), one frame after the previous call
TryFireCall(k) ==
  /\ steps < MaxFrames
  /\ \E fired \in { TryFire(towers[k], enemies, now + FrameMs) } :
       /\ towers' = [towers EXCEPT ![k] = fired.tower]
       /\ last' = [ op |-> "tryFire", tower |-> k, before |-> towers[k],
                    projectile |-> fired.projectile, fired |-> fired.fired,
                    t |-> now + FrameMs ]
  /\ now' = now + FrameMs
  /\ steps' = steps + 1
  /\ UNCHANGED <<enemies, projectiles, spellUsage, occupied, rewardLoop, game>>

\* the boss's silence skill picks tower k
BossSilences(k) ==
  /\ ~towers[k].isSilenced
  /\ towers' = [towers EXCEPT ![k] = ApplySilence(@, SilenceDuration, DateNow(now))]
  /\ last' = [ op |-> "silence", tower |-> k, before |-> towers[k], projectile |-> None ]
  /\ UNCHANGED <<enemies, projectiles, spellUsage, now, steps, occupied, rewardLoop, game>>

NextFire ==
  \/ \E i \in DOMAIN enemies : EnemyAdvance(i)
  \/ \E i \in DOMAIN enemies : EnemyKilled(i)
  \/ \E k \in DOMAIN towers : FindTargetCall(k)
  \/ \E k \in DOMAIN towers : TryFireCall(k)
  \/ \E k \in DOMAIN towers : BossSilences(k)

SpecFire == InitFire /\ [][NextFire]_vars

\* the target the tower held when tryFire was entered
HeldTarget == last.before.currentTarget

\* that target was alive and within the tower's range
HeldTargetValid ==
  /\ HeldTarget # 0
  /\ enemies[HeldTarget].isAlive
  /\ IsInRange(last.before, enemies[HeldTarget])

\* the target was alive but outside the tower's range
HeldTargetOutOfRange ==
  /\ HeldTarget # 0
  /\ enemies[HeldTarget].isAlive
  /\ ~IsInRange(last.before, enemies[HeldTarget])

\* tryFire got past the silence and fire-interval checks
ReadyToFire ==
  /\ ~last.before.isSilenced
  /\ last.t - last.before.lastFireTime >= last.before.fireRate

FollowPath(e) ==
  [e EXCEPT !.pathIndex = e.pathIndex + 1,
            !.pos = Route0[e.pathIndex + 1],
            !.isAlive = e.pathIndex + 1 < Len(Route0)]

\* the enemy loop of Game.update; adv = the enemies whose update() reaches the
\* next sampled cell this frame
EnemyLoop(es, adv) ==
  [i \in DOMAIN es |-> IF i \in adv /\ es[i].listed /\ es[i].isAlive
                       THEN FollowPath(es[i]) ELSE es[i]]

\* this.enemies = this.enemies.filter((e) => e.isAlive)
FilterEnemies(es) ==
  [i \in DOMAIN es |-> [es[i] EXCEPT !.listed = es[i].listed /\ es[i].isAlive]]

\* the tower loop of Game.update over towers[k..]: findTarget, tryFire, push
RECURSIVE TowerLoop(_, _, _, _, _)
TowerLoop(tws, es, ps, k, t) ==
  IF k > Len(tws) THEN [ towers |-> tws, projectiles |-> ps ]
  ELSE IF ~tws[k].isAlive THEN TowerLoop(tws, es, ps, k + 1, t)
  ELSE LET fired == TryFire(FindTarget(tws[k], es), es, t)
       IN  TowerLoop([tws EXCEPT ![k] = fired.tower], es,
                     IF fired.fired
                       THEN Append(ps, NewProjectile(fired.projectile.pos, es,
                                                     fired.projectile))
                       ELSE ps,
                     k + 1, t)

\* the projectile loop of Game.update over ps[k..]; crit[k] and evade[k] are the
\* outcomes of projectile k's critical roll and of its target's evasion roll;
\* ok = the rolls are ones the code can make
RECURSIVE ProjectileLoop(_, _, _, _, _, _)
ProjectileLoop(ps, es, k, crit, evade, t) ==
  IF k > Len(ps) THEN [ projectiles |-> ps, enemies |-> es, ok |-> TRUE ]
  ELSE LET r == ProjectileUpdate(ps[k], es, crit[k])
           stepped == [r.projectile EXCEPT !.listed = r.projectile.isActive,
                                           !.hitsReported = @ + (IF r.hit = NoHit THEN 0 ELSE 1)]
           ps1 == [ps EXCEPT ![k] = stepped]
       IN  IF r.hit = NoHit
             THEN IF crit[k] \/ evade[k]
                    THEN [ projectiles |-> ps, enemies |-> es, ok |-> FALSE ]
                  ELSE ProjectileLoop(ps1, es, k + 1, crit, evade, t)
           ELSE IF evade[k]
             THEN IF EnemyTypeConfig(es[r.hit.target].type).evasionPct > 0
                    THEN ProjectileLoop(ps1, es, k + 1, crit, evade, t)
                  ELSE [ projectiles |-> ps, enemies |-> es, ok |-> FALSE ]
           ELSE IF EnemyTypeConfig(es[r.hit.target].type).evasionPct < 100
             THEN ProjectileLoop(ps1,
                                 ResolveHit(es, r.hit.target, r.hit.element,
                                            r.hit.damage, t).enemies,
                                 k + 1, crit, evade, t)
           ELSE [ projectiles |-> ps, enemies |-> es, ok |-> FALSE ]

\* this.projectiles = this.projectiles.filter((p) => p.isActive)
IsActiveProjectile(p) == p.isActive
FilterProjectiles(ps) == SelectSeq(ps, IsActiveProjectile)

InitTick ==
  /\ enemies = [i \in 1..2 |->
                  [NewEnemy("normal", 1, None, Route0[4]) EXCEPT !.pathIndex = 4]
                    @@ [listed |-> TRUE]]
  /\ towers = << NewTower(3, 4, "physical", 1) >>
  /\ projectiles = <<>>
  /\ spellUsage = 0
  /\ occupied = OccupiedBy(towers)
  /\ rewardLoop = NoRewardCall
  /\ game = NoGame
  /\ now = 0
  /\ steps = 0
  /\ last = [ op |-> "init", killed |-> {} ]

\* Game.update(currentTime): the enemy loop, the filter of dead enemies, the
\* tower loop, the projectile loop with hit resolution, the filter of inactive
\* projectiles.  No enemy stands within attack distance of the tower, so
\* processEnemyAttacks does nothing.  crit and evade are the projectiles whose
\* critical roll, and whose target's evasion roll, succeed this frame.
GameTick(adv) ==
  /\ steps < MaxTicks
  /\ adv \subseteq { i \in DOMAIN enemies : enemies[i].listed /\ enemies[i].isAlive }
  /\ \E moved \in { FilterEnemies(EnemyLoop(enemies, adv)) } :
     \E shot \in { TowerLoop(towers, moved, projectiles, 1, now + FrameMs) } :
     \E crit \in SUBSET (1..Len(shot.projectiles)), evade \in SUBSET (1..Len(shot.projectiles)) :
     \E flown \in { ProjectileLoop(shot.projectiles, moved, 1,
                                   [k \in 1..Len(shot.projectiles) |-> k \in crit],
                                   [k \in 1..Len(shot.projectiles) |-> k \in evade],
                                   now + FrameMs) } :
       /\ flown.ok
       /\ enemies' = flown.enemies
       /\ towers' = shot.towers
       /\ projectiles' = FilterProjectiles(flown.projectiles)
       /\ last' = [ op |-> "tick",
                    killed |-> { i \in DOMAIN moved :
                                   moved[i].isAlive /\ ~flown.enemies[i].isAlive } ]
  /\ now' = now + FrameMs
  /\ steps' = steps + 1
  /\ UNCHANGED <<spellUsage, occupied, rewardLoop, game>>

NextTick == \E adv \in SUBSET (1..2) : GameTick(adv)

SpecTick == InitTick /\ [][NextTick]_vars

\* C16: at the end of every frame Game.enemies holds no enemy with isAlive
\* false; an enemy killed in the frame's projectile phase is removed in that
\* same frame.
C16_DeadEnemiesCleaned ==
  last.op = "tick" => \A i \in DOMAIN enemies : enemies[i].listed => enemies[i].isAlive

(***************************************************************************)
(* Specification SpecSpell: projectile hits and the meteor and oil-bomb    *)
(* spells landing on a small group of enemies.  spellUsage maps a spell    *)
(* type to the number of its casts.                                        *)
(***************************************************************************)
MeteorRadius == 60
MeteorDamage == 200
MeteorCooldown == 2

\* the meteor loop body of castSpell for one enemy of allEnemies
MeteorOne(e, targetPosition) ==
  IF ~e.isAlive \/ Dist2(e.pos, targetPosition) > MeteorRadius * MeteorRadius THEN e
  ELSE ApplyStatus(TakeDamage(e, FalloffDamage(MeteorDamage, Dist2(e.pos, targetPosition),
                                               MeteorRadius),
                              None).enemy,
                   "fire")

SpellTypes == { "meteor", "oil_bomb" }
SpellCooldown(spellType) ==
  CASE spellType = "meteor" -> MeteorCooldown [] spellType = "oil_bomb" -> OilBombCooldown

\* SpellSystem.castSpell(spellType, targetPosition, allEnemies) of a usable spell
CastSpell(spellType, targetPosition, es) ==
  CASE spellType = "meteor" -> [j \in DOMAIN es |-> MeteorOne(es[j], targetPosition)]
    [] spellType = "oil_bomb" -> CastOilBomb(es, targetPosition)

InitSpell ==
  /\ \E t2 \in {"tank", "ghost"}, p2 \in SecondPositions :
       enemies = [i \in EnemyIds |->
                    IF i = 1 THEN NewEnemy("normal", WaveNumber, None, Origin)
                    ELSE NewEnemy(t2, WaveNumber, None, p2)]
  /\ towers = <<>>
  /\ projectiles = <<>>
  /\ spellUsage = [ spellType \in SpellTypes |-> 0 ]
  /\ occupied = OccupiedBy(towers)
  /\ rewardLoop = NoRewardCall
  /\ game = NoGame
  /\ now = 0
  /\ steps = 0
  /\ last = [NoOp EXCEPT !.op = "init"] @@ [pre |-> enemies, mid |-> enemies]

\* Game.handleSpellDrop: a spell card dropped on enemy i's position
HandleSpellDrop(spellType, i) ==
  /\ steps < MaxHits
  /\ spellUsage[spellType] < SpellCooldown(spellType)
  /\ enemies' = CastSpell(spellType, enemies[i].pos, enemies)
  /\ spellUsage' = [spellUsage EXCEPT ![spellType] = @ + 1]
  /\ last' = [ op |-> spellType, target |-> i, element |-> None,
               damage |-> 0, reaction |-> None, ret |-> 0,
               pre |-> enemies, mid |-> enemies ]
  /\ steps' = steps + 1
  /\ UNCHANGED <<towers, projectiles, now, occupied, rewardLoop, game>>

NextSpell ==
  \/ \E i \in EnemyIds, shot \in Shots : ProjectileHit(i, shot, FALSE)
  \/ \E spellType \in SpellTypes, i \in EnemyIds : HandleSpellDrop(spellType, i)

SpecSpell == InitSpell /\ [][NextSpell]_vars

\* C19: a meteor landing on a live enemy tagged ice or oil leaves that enemy
\* with the health and status that a fire projectile of the meteor's damage
\* leaves it with, the melt or explosion reaction included.
C19_SpellsUseReactionPath ==
  (/\ last.op = "meteor"
   /\ last.pre[last.target].isAlive
   /\ last.pre[last.target].status \in {"ice", "oil"}) =>
    LET hit == ResolveHit(last.pre, last.target, "fire", MeteorDamage, now).enemies[last.target]
    IN  /\ enemies[last.target].health = hit.health
        /\ enemies[last.target].status = hit.status

(***************************************************************************)
(* Specification SpecReward: RewardManager.generateRewardChoices, one loop *)
(* iteration per step; the random draws are the step's inputs.             *)
(***************************************************************************)
RewardCount == 3
BreakThreshold == 10
Rarities == { "common", "rare", "epic" }
RewardTypes == { "new_card", "upgrade", "heal" }
RewardElements == << "fire", "ice", "lightning" >>
RewardSpells == << "meteor", "blizzard", "oil_bomb" >>

\* selectRewardType can return this type: heal needs hpRatio < 0.8
CanSelectRewardType(type, currentHP, maxHP) ==
  type = "heal" => currentHP * 10 < maxHP * 8

\* generateHealReward: healAmount
HealAmount(rarity, currentHP, maxHP) ==
  CASE rarity = "epic" -> maxHP
    [] rarity = "rare" -> Min(50, maxHP - currentHP)
    [] OTHER -> Min(20, maxHP - currentHP)

\* getRewardKey of the reward generated for these draws: coin = the outcome of
\* Math.random() < 0.3 (new card) or < 0.5 (rare upgrade), pick = the index
\* Math.floor(Math.random() * 3)
RewardKey(rarity, type, coin, pick, currentHP, maxHP) ==
  CASE type = "new_card" ->
         IF coin THEN << "card", "spell", RewardSpells[pick + 1] >>
         ELSE << "card", "tower", RewardElements[pick + 1] >>
    [] type = "upgrade" ->
         IF rarity = "epic" THEN << "upgrade", "all_damage", "all" >>
         ELSE IF rarity = "rare"
           THEN << "upgrade", IF coin THEN "fire_rate" ELSE "range", "all" >>
         ELSE << "upgrade", "damage", RewardElements[pick + 1] >>
    [] type = "heal" -> << "heal", "amount", HealAmount(rarity, currentHP, maxHP) >>

\* one pass of the for loop of generateRewardChoices entered with the locals
\* loop, then i++ and the test i < 3
LoopIteration(loop, key) ==
  IF key \notin loop.usedTypes
    THEN [loop EXCEPT !.usedTypes = @ \cup {key},
                      !.rewards = Append(@, key),
                      !.duplicates = 0,
                      !.i = loop.i + 1,
                      !.exited = ~(loop.i + 1 < RewardCount)]
  ELSE IF loop.i - 1 < -BreakThreshold
    THEN [loop EXCEPT !.i = loop.i - 1, !.duplicates = @ + 1, !.exited = TRUE]
  ELSE [loop EXCEPT !.i = (loop.i - 1) + 1,
                    !.duplicates = @ + 1,
                    !.exited = ~((loop.i - 1) + 1 < RewardCount)]

\* base HP values at the wave clear: full, and after six leaks
RewardHPs == { 100, 40 }
MaxBaseHP == 100

InitReward ==
  /\ enemies = <<>>
  /\ towers = <<>>
  /\ projectiles = <<>>
  /\ spellUsage = 0
  /\ occupied = OccupiedBy(towers)
  /\ rewardLoop = NoRewardCall
  /\ game = NoGame
  /\ now = 0
  /\ steps = 0
  /\ last = [ op |-> "init" ]

\* generateRewardChoices(waveNumber, currentHP, maxHP) entered
GenerateRewardChoices(currentHP) ==
  /\ rewardLoop.exited
  /\ rewardLoop' = [ i |-> 0, rewards |-> <<>>, usedTypes |-> {}, duplicates |-> 0,
                     exited |-> FALSE, currentHP |-> currentHP, maxHP |-> MaxBaseHP ]
  /\ last' = [ op |-> "call" ]
  /\ UNCHANGED <<enemies, towers, projectiles, spellUsage, now, steps, occupied, game>>

\* one loop iteration with the draws of selectRarity, selectRewardType and the
\* reward generator
RewardDraw(rarity, type, coin, pick) ==
  /\ ~rewardLoop.exited
  /\ CanSelectRewardType(type, rewardLoop.currentHP, rewardLoop.maxHP)
  /\ \E key \in { RewardKey(rarity, type, coin, pick, rewardLoop.currentHP, rewardLoop.maxHP) } :
       /\ key \in rewardLoop.usedTypes => rewardLoop.duplicates < MaxDuplicates
       /\ rewardLoop' = LoopIteration(rewardLoop, key)
  /\ last' = [ op |-> "draw" ]
  /\ UNCHANGED <<enemies, towers, projectiles, spellUsage, now, steps, occupied, game>>

NextReward ==
  \/ \E currentHP \in RewardHPs : GenerateRewardChoices(currentHP)
  \/ \E rarity \in Rarities, type \in RewardTypes, coin \in BOOLEAN, pick \in 0..2 :
       RewardDraw(rarity, type, coin, pick)

SpecReward == InitReward /\ [][NextReward]_vars

\* C20: generateRewardChoices gives up after a bounded number of duplicate
\* draws in a row, the number that takes the loop counter from at most 2 to
\* below -10, whatever the draws; and it returns at most 3 rewards with
\* pairwise distinct keys.
C20_BoundedRandomSearch ==
  /\ rewardLoop.duplicates <= BreakThreshold + RewardCount
  /\ rewardLoop.exited =>
       /\ Len(rewardLoop.rewards) <= RewardCount
       /\ \A a, b \in DOMAIN rewardLoop.rewards :
            a # b => rewardLoop.rewards[a] # rewardLoop.rewards[b]

(***************************************************************************)
(* Enemy movement, melee and skills.  Positions are whole pixels: an enemy *)
(* whose speed is not a whole number of pixels per frame is tracked at the *)
(* frames where its position is whole again, a stride apart; phase counts  *)
(* the frames it has moved since then.                                     *)
(***************************************************************************)
\* ENEMY_TYPE_CONFIGS: attackDamage, attackCooldown, skillCooldown
EnemyAttackConfig(type) ==
  CASE type = "normal"  -> [ attackDamage |-> 5,  attackCooldown |-> 2000 ]
    [] type = "tank"    -> [ attackDamage |-> 15, attackCooldown |-> 3000 ]
    [] type = "breaker" -> [ attackDamage |-> 80, attackCooldown |-> 500 ]
    [] type = "ghost"   -> [ attackDamage |-> 8,  attackCooldown |-> 2500 ]
    [] type = "boss"    -> [ attackDamage |-> 30, attackCooldown |-> 4000 ]

SkillCooldown == 5000

\* the Enemy constructor's fields for attacks, skills and the breaker's target;
\* listed = the enemy is an element of Game.enemies
NewAttacker(type, wave, pos, pathIndex) ==
  [NewMovingEnemy(type, wave, None, pos) EXCEPT !.pathIndex = pathIndex]
    @@ [ attackDamage |-> (EnemyAttackConfig(type).attackDamage * (wave + 3)) \div 4,
         attackCooldown |-> EnemyAttackConfig(type).attackCooldown,
         lastAttackTime |-> 0,
         skillCooldown |-> SkillCooldown,
         lastSkillTime |-> 0,
         targetTower |-> 0,
         phase |-> 0,
         listed |-> TRUE ]

RECURSIVE Gcd(_, _)
Gcd(a, b) == IF b = 0 THEN a ELSE Gcd(b, a % b)

\* the pixels an enemy of this speed (in 1/1000 px per frame) covers between
\* two frames at which its position is whole
Stride(speed) == speed \div Gcd(speed, 1000)

\* the frames between two such positions
Period(speed) == 1000 \div Gcd(speed, 1000)

\* Math.sqrt rounded down
ISqrt(n) == CHOOSE k \in 0..850 : k * k <= n /\ n < (k + 1) * (k + 1)

\* a * b / c rounded to the nearest whole number, for c > 0
RoundDiv(a, b, c) ==
  IF a * b >= 0 THEN (2 * a * b + c) \div (2 * c) ELSE -((2 * (-a) * b + c) \div (2 * c))

\* position += (d / distance) * stride, towards target; the callers' tests
\* come first, and with distance 0 both quotients are 0 / 0
MoveTowards(pos, target, stride) ==
  LET dx == target[1] - pos[1]
      dy == target[2] - pos[2]
  IN  IF dx = 0 /\ dy = 0 THEN << NaN, NaN >>
      ELSE IF dy = 0 THEN << pos[1] + (IF dx > 0 THEN stride ELSE -stride), pos[2] >>
      ELSE IF dx = 0 THEN << pos[1], pos[2] + (IF dy > 0 THEN stride ELSE -stride) >>
      ELSE LET distance == ISqrt(dx * dx + dy * dy) IN
           << pos[1] + RoundDiv(dx, stride, distance),
              pos[2] + RoundDiv(dy, stride, distance) >>

\* distance < speed, for a whole squared distance d2 and a speed in 1/1000 px
CloserThanSpeed(d2, speed) == d2 <= 4 /\ d2 * 1000000 < speed * speed

\* Enemy.followPath() on the path points path, pathIndex counted from 0
FollowPathOn(e, path, stride) ==
  IF e.pathIndex >= Len(path) - 1 THEN [ enemy |-> e, reached |-> TRUE ]
  ELSE IF CloserThanSpeed(Dist2(e.pos, path[e.pathIndex + 2]), e.speed)
    THEN [ enemy |-> [e EXCEPT !.pathIndex = e.pathIndex + 1],
           reached |-> e.pathIndex + 1 >= Len(path) - 1 ]
  ELSE [ enemy |-> [e EXCEPT !.pos = MoveTowards(e.pos, path[e.pathIndex + 2], stride)],
         reached |-> FALSE ]

\* Enemy.moveTowardsBase()
BasePosition == CellCenter(BaseCell[1], BaseCell[2])
MoveTowardsBase(e, stride) ==
  IF 4 * Dist2(e.pos, BasePosition) < GridSize * GridSize
    THEN [ enemy |-> e, reached |-> TRUE ]
  ELSE [ enemy |-> [e EXCEPT !.pos = MoveTowards(e.pos, BasePosition, stride)],
         reached |-> FALSE ]

\* distance < enemy.size / 2 + tower.size / 2
InContact(e, tw) ==
  4 * Dist2(e.pos, tw.pos)
    < (EnemyTypeConfig(e.type).size + tw.size) * (EnemyTypeConfig(e.type).size + tw.size)

\* Enemy.moveTowardsTower(tower)
MoveTowardsTower(e, tw, stride) ==
  IF InContact(e, tw) THEN [ enemy |-> e, reached |-> TRUE ]
  ELSE [ enemy |-> [e EXCEPT !.pos = MoveTowards(e.pos, tw.pos, stride)],
         reached |-> FALSE ]

\* Enemy.findNearestTower(towers): the first of the towers ids[n..] of ts that
\* is alive and strictly nearer than the best so far; 0 = null
RECURSIVE FindNearestTower(_, _, _, _, _)
FindNearestTower(e, ts, ids, n, best) ==
  IF n > Len(ids) THEN best
  ELSE IF ~ts[ids[n]].isAlive THEN FindNearestTower(e, ts, ids, n + 1, best)
  ELSE IF best = 0 \/ Dist2(e.pos, ts[ids[n]].pos) < Dist2(e.pos, ts[best].pos)
    THEN FindNearestTower(e, ts, ids, n + 1, ids[n])
  ELSE FindNearestTower(e, ts, ids, n + 1, best)

\* the expiry checks at the head of Enemy.update(), dateNow = Date.now()
ExpireCc(e, dateNow) ==
  LET thawed == IF e.isFrozen /\ dateNow >= e.freezeEndTime
                  THEN IF e.status = "frozen"
                         THEN ClearStatus([e EXCEPT !.isFrozen = FALSE])
                       ELSE [e EXCEPT !.isFrozen = FALSE]
                ELSE e
  IN  IF thawed.isSlowed /\ dateNow >= thawed.slowEndTime
        THEN [thawed EXCEPT !.isSlowed = FALSE, !.slowMultiplier = 100,
                            !.speed = thawed.baseSpeed]
      ELSE thawed

\* the status countdown of Enemy.update()
StatusCountdown(e) ==
  IF e.statusDuration > 0
    THEN IF e.statusDuration - 16 <= 0 THEN ClearStatus(e)
         ELSE [e EXCEPT !.statusDuration = e.statusDuration - 16]
  ELSE e

\* Enemy.update(towers) with a frozen enemy moving all the same
EnemyUpdateMutantFrozenMoves(e, ts, aliveTowers, path, dateNow, advances) ==
  IF ~e.isAlive THEN [ enemy |-> e, reached |-> FALSE ]
  ELSE LET counted == StatusCountdown(ExpireCc(e, dateNow))
           stride  == IF advances THEN Stride(counted.speed) ELSE 0
       IN  FollowPathOn(counted, path, stride)

\* Enemy.update(towers) with a breaker scanning for the nearest tower at every
\* update
EnemyUpdateMutantAlwaysRescan(e, ts, aliveTowers, path, dateNow, advances) ==
  IF ~e.isAlive THEN [ enemy |-> e, reached |-> FALSE ]
  ELSE LET expired == ExpireCc(e, dateNow) IN
    IF expired.isFrozen THEN [ enemy |-> expired, reached |-> FALSE ]
    ELSE LET counted == StatusCountdown(expired)
             stride  == IF advances THEN Stride(counted.speed) ELSE 0
         IN  IF counted.type = "ghost" THEN MoveTowardsBase(counted, stride)
             ELSE IF counted.type = "breaker" /\ Len(aliveTowers) > 0
               THEN LET locked == [counted EXCEPT !.targetTower =
                                     FindNearestTower(counted, ts, aliveTowers, 1, 0)]
                    IN  IF locked.targetTower # 0
                          THEN MoveTowardsTower(locked, ts[locked.targetTower], stride)
                        ELSE FollowPathOn(locked, path, stride)
             ELSE FollowPathOn(counted, path, stride)

\* Enemy.update(towers): aliveTowers = the ids of the towers passed in, path =
\* the enemy's path points, advances = the enemy's position is whole again at
\* this frame
EnemyUpdate(e, ts, aliveTowers, path, dateNow, advances) ==
  IF ~e.isAlive THEN [ enemy |-> e, reached |-> FALSE ]
  ELSE LET expired == ExpireCc(e, dateNow) IN
    IF expired.isFrozen THEN [ enemy |-> expired, reached |-> FALSE ]
    ELSE LET counted == StatusCountdown(expired)
             stride  == IF advances THEN Stride(counted.speed) ELSE 0
         IN  IF counted.type = "ghost" THEN MoveTowardsBase(counted, stride)
             ELSE IF counted.type = "breaker" /\ Len(aliveTowers) > 0
               THEN LET locked ==
                          IF counted.targetTower = 0 \/ ~ts[counted.targetTower].isAlive
                            THEN [counted EXCEPT !.targetTower =
                                    FindNearestTower(counted, ts, aliveTowers, 1, 0)]
                          ELSE counted
                    IN  IF locked.targetTower # 0
                          THEN MoveTowardsTower(locked, ts[locked.targetTower], stride)
                        ELSE FollowPathOn(locked, path, stride)
             ELSE FollowPathOn(counted, path, stride)

(***************************************************************************)
(* Game.update: the enemy loop, the melee pass and the filters.  A frame's *)
(* state is [enemies, towers, occupied, events]; events lists what the     *)
(* frame did to towers and to the base, in order.                          *)
(***************************************************************************)
\* Tower.takeDamage(damage)
TowerTakeDamage(tw, damage) ==
  IF ~tw.isAlive THEN tw
  ELSE IF tw.hp - damage <= 0 THEN [tw EXCEPT !.hp = 0, !.isAlive = FALSE]
  ELSE [tw EXCEPT !.hp = tw.hp - damage]

\* the value Tower.takeDamage(damage) returns: the tower was destroyed by it
TowerDestroyedByMutantNoAliveGuard(tw, damage) == tw.hp - damage <= 0

TowerDestroyedBy(tw, damage) == tw.isAlive /\ tw.hp - damage <= 0

\* Tower.heal(amount)
TowerHeal(tw, amount) ==
  IF ~tw.isAlive THEN tw ELSE [tw EXCEPT !.hp = Min(tw.maxHp, tw.hp + amount)]

\* Enemy.attackTower(tower, currentTime)
AttackTowerMutantBreakerSurvives(e, currentTime) ==
  [e EXCEPT !.lastAttackTime = currentTime]

AttackTower(e, currentTime) ==
  IF e.type = "breaker"
    THEN [e EXCEPT !.lastAttackTime = currentTime, !.isAlive = FALSE, !.health = 0]
  ELSE [e EXCEPT !.lastAttackTime = currentTime]

\* this.towers.filter(t => t.isAlive), as tower ids in list order
RECURSIVE AliveTowers(_, _)
AliveTowers(ts, k) ==
  IF k > Len(ts) THEN <<>>
  ELSE IF ts[k].listed /\ ts[k].isAlive THEN <<k>> \o AliveTowers(ts, k + 1)
  ELSE AliveTowers(ts, k + 1)

\* calculateAndApplySynergies(this.towers.filter(t => t.isAlive))
RecomputeAlive(ts) ==
  LET ids      == AliveTowers(ts, 1)
      computed == CalculateAndApplySynergies([n \in 1..Len(ids) |-> ts[ids[n]]])
  IN  [k \in DOMAIN ts |->
         IF \E n \in 1..Len(ids) : ids[n] = k
           THEN computed[CHOOSE n \in 1..Len(ids) : ids[n] = k]
         ELSE ts[k]]

\* enemy i attacks tower k: attackTower, takeDamage, and handleTowerDestruction
\* when the tower is destroyed; kind names the caller
Strike(st, i, k, currentTime, kind) ==
  LET hit       == TowerTakeDamage(st.towers[k], st.enemies[i].attackDamage)
      destroyed == TowerDestroyedBy(st.towers[k], st.enemies[i].attackDamage)
      ts1       == [st.towers EXCEPT ![k] = hit]
  IN  [ enemies  |-> [st.enemies EXCEPT ![i] = AttackTower(@, currentTime)],
        towers   |-> IF destroyed THEN RecomputeAlive(ts1) ELSE ts1,
        occupied |-> IF destroyed
                       THEN st.occupied \ { <<hit.gridRow, hit.gridCol>> }
                     ELSE st.occupied,
        events   |-> Append(st.events,
                       [ kind |-> kind, enemy |-> i, tower |-> k,
                         damage |-> st.enemies[i].attackDamage, hp |-> hit.hp,
                         destroyed |-> destroyed,
                         before |-> st.towers[k], attacker |-> st.enemies[i] ]) ]

BossSkills == { "summon", "heal", "silence" }

\* Enemy.canUseSkill(currentTime)
CanUseSkill(e, currentTime) ==
  EnemyTypeConfig(e.type).isBoss /\ currentTime - e.lastSkillTime >= e.skillCooldown

\* the offsets cos, sin of (2 pi / 3) i times 40, in whole pixels
MinionOffsets == << <<40, 0>>, <<-20, 35>>, <<-20, -35>> >>

\* Game.bossSummonMinions(boss)
BossSummonMinions(es, boss) ==
  es \o [n \in 1..3 |->
           NewAttacker("normal", WaveNumber,
                       << es[boss].pos[1] + MinionOffsets[n][1],
                          es[boss].pos[2] + MinionOffsets[n][2] >>, 0)]

\* Game.handleBossSkill(boss, currentTime, aliveTowers) for a boss that can
\* use its skill: skill = the skill useSkill draws, pick = the index drawn for
\* the silence target
HandleBossSkillMutantNoTimestamp(st, i, currentTime, aliveTowers, skill, pick) ==
  LET used == [st EXCEPT !.events = Append(@, [ kind |-> "skill", enemy |-> i, tower |-> 0,
                                               damage |-> 0, before |-> 0,
                                               attacker |-> st.enemies[i] ])]
  IN  CASE skill = "summon" -> [used EXCEPT !.enemies = BossSummonMinions(@, i)]
        [] skill = "heal" ->
             [used EXCEPT !.enemies[i].health =
                Min(st.enemies[i].maxHealth,
                    st.enemies[i].health + st.enemies[i].maxHealth \div 10)]
        [] skill = "silence" ->
             IF Len(aliveTowers) > 0
               THEN [used EXCEPT
                       !.towers[aliveTowers[pick + 1]] =
                          ApplySilence(@, SilenceDuration, DateNow(currentTime)),
                       !.events = Append(@, [ kind |-> "silence", enemy |-> i,
                                              tower |-> aliveTowers[pick + 1], damage |-> 0,
                                              before |-> st.towers[aliveTowers[pick + 1]],
                                              attacker |-> st.enemies[i] ])]
             ELSE used

HandleBossSkillMutantUncappedHeal(st, i, currentTime, aliveTowers, skill, pick) ==
  LET used == [st EXCEPT !.enemies[i].lastSkillTime = currentTime,
                         !.events = Append(@, [ kind |-> "skill", enemy |-> i, tower |-> 0,
                                               damage |-> 0, before |-> 0,
                                               attacker |-> st.enemies[i] ])]
  IN  CASE skill = "summon" -> [used EXCEPT !.enemies = BossSummonMinions(@, i)]
        [] skill = "heal" ->
             [used EXCEPT !.enemies[i].health =
                st.enemies[i].health + st.enemies[i].maxHealth \div 10]
        [] skill = "silence" ->
             IF Len(aliveTowers) > 0
               THEN [used EXCEPT
                       !.towers[aliveTowers[pick + 1]] =
                          ApplySilence(@, SilenceDuration, DateNow(currentTime)),
                       !.events = Append(@, [ kind |-> "silence", enemy |-> i,
                                              tower |-> aliveTowers[pick + 1], damage |-> 0,
                                              before |-> st.towers[aliveTowers[pick + 1]],
                                              attacker |-> st.enemies[i] ])]
             ELSE used

HandleBossSkill(st, i, currentTime, aliveTowers, skill, pick) ==
  LET used == [st EXCEPT !.enemies[i].lastSkillTime = currentTime,
                         !.events = Append(@, [ kind |-> "skill", enemy |-> i, tower |-> 0,
                                               damage |-> 0, before |-> 0,
                                               attacker |-> st.enemies[i] ])]
  IN  CASE skill = "summon" -> [used EXCEPT !.enemies = BossSummonMinions(@, i)]
        [] skill = "heal" ->
             [used EXCEPT !.enemies[i].health =
                Min(st.enemies[i].maxHealth,
                    st.enemies[i].health + st.enemies[i].maxHealth \div 10)]
        [] skill = "silence" ->
             IF Len(aliveTowers) > 0
               THEN [used EXCEPT
                       !.towers[aliveTowers[pick + 1]] =
                          ApplySilence(@, SilenceDuration, DateNow(currentTime)),
                       !.events = Append(@, [ kind |-> "silence", enemy |-> i,
                                              tower |-> aliveTowers[pick + 1], damage |-> 0,
                                              before |-> st.towers[aliveTowers[pick + 1]],
                                              attacker |-> st.enemies[i] ])]
             ELSE used

\* the cells generatePath pushes for one segment: the start waypoint, then
\* row by row to the end row, then column by column to the end column
RECURSIVE SegmentPath(_, _)
SegmentPath(start, end) ==
  IF start = end THEN << start >>
  ELSE IF start[1] # end[1]
    THEN << start >> \o SegmentPath(<< start[1] + (IF end[1] > start[1] THEN 1 ELSE -1),
                                       start[2] >>, end)
  ELSE << start >> \o SegmentPath(<< start[1],
                                     start[2] + (IF end[2] > start[2] THEN 1 ELSE -1) >>, end)

\* PathSystem.generatePath(waypoints) as cells: a waypoint between two
\* segments is pushed twice
RECURSIVE GeneratePath(_, _)
GeneratePath(waypoints, i) ==
  IF i >= Len(waypoints) THEN <<>>
  ELSE SegmentPath(waypoints[i], waypoints[i + 1]) \o GeneratePath(waypoints, i + 1)

\* PathSystem.getPath(0)
Route0Path ==
  LET cells == GeneratePath(RouteWaypoints[1], 1)
  IN  [k \in 1..Len(cells) |-> CellCenter(cells[k][1], cells[k][2])]

\* F(v) with v evaluated once
With(v, F(_)) == CHOOSE r \in { F(x) : x \in { v } } : TRUE

\* the body of the enemy loop for a live enemy i, after its skill: the breaker's
\* contact branch, else update(aliveTowers) and the goal branches
EnemyStep(skilled, i, currentTime, aliveTowers) ==
  IF /\ skilled.enemies[i].type = "breaker"
     /\ skilled.enemies[i].targetTower # 0
     /\ skilled.towers[skilled.enemies[i].targetTower].isAlive
     /\ InContact(skilled.enemies[i], skilled.towers[skilled.enemies[i].targetTower])
    THEN Strike(skilled, i, skilled.enemies[i].targetTower, currentTime, "selfDestruct")
  ELSE With(EnemyUpdate(skilled.enemies[i], skilled.towers, aliveTowers, Route0Path,
                        DateNow(currentTime),
                        (skilled.enemies[i].phase + 1) % Period(skilled.enemies[i].speed) = 0),
            LAMBDA r :
              With([skilled EXCEPT !.enemies[i] =
                      IF r.enemy.isFrozen THEN r.enemy
                      ELSE [r.enemy EXCEPT !.phase = (skilled.enemies[i].phase + 1)
                                                       % Period(skilled.enemies[i].speed)]],
                   LAMBDA moved :
                     IF /\ r.reached
                        /\ r.enemy.type = "breaker"
                        /\ r.enemy.targetTower # 0
                        /\ moved.towers[r.enemy.targetTower].isAlive
                       THEN Strike(moved, i, r.enemy.targetTower, currentTime, "selfDestruct")
                     ELSE IF r.reached
                       THEN [moved EXCEPT
                               !.enemies[i].isAlive = FALSE,
                               !.events = Append(@, [ kind |-> "leak", enemy |-> i,
                                                      tower |-> 0, damage |-> 10,
                                                      before |-> 0, attacker |-> r.enemy ])]
                     ELSE moved))

\* the enemy loop of Game.update over enemies[i..], minions pushed by a summon
\* included
RECURSIVE EnemyPhase(_, _, _, _, _, _)
EnemyPhase(st, i, currentTime, aliveTowers, skill, pick) ==
  IF i > Len(st.enemies) THEN st
  ELSE IF ~st.enemies[i].listed \/ ~st.enemies[i].isAlive
    THEN EnemyPhase(st, i + 1, currentTime, aliveTowers, skill, pick)
  ELSE With(IF CanUseSkill(st.enemies[i], currentTime)
              THEN HandleBossSkill(st, i, currentTime, aliveTowers, skill, pick)
            ELSE st,
            LAMBDA skilled :
              With(EnemyStep(skilled, i, currentTime, aliveTowers),
                   LAMBDA after :
                     EnemyPhase(after, i + 1, currentTime, aliveTowers, skill, pick)))

MeleeRange2 == (GridSize * 3) * (GridSize * 3)

\* the tower loop of processEnemyAttacks for enemy i over towers[k..]
RECURSIVE MeleeTowerLoop(_, _, _, _)
MeleeTowerLoop(st, i, k, currentTime) ==
  IF k > Len(st.towers) THEN st
  ELSE IF ~st.towers[k].listed \/ ~st.towers[k].isAlive
    THEN MeleeTowerLoop(st, i, k + 1, currentTime)
  ELSE IF 4 * Dist2(st.towers[k].pos, st.enemies[i].pos) < MeleeRange2
    THEN Strike(st, i, k, currentTime, "melee")
  ELSE MeleeTowerLoop(st, i, k + 1, currentTime)

\* Game.processEnemyAttacks(currentTime) over enemies[i..]
RECURSIVE ProcessEnemyAttacksMutantNoCooldown(_, _, _)
ProcessEnemyAttacksMutantNoCooldown(st, i, currentTime) ==
  IF i > Len(st.enemies) THEN st
  ELSE IF \/ ~st.enemies[i].listed \/ ~st.enemies[i].isAlive
          \/ st.enemies[i].type = "breaker"
    THEN ProcessEnemyAttacksMutantNoCooldown(st, i + 1, currentTime)
  ELSE With(MeleeTowerLoop(st, i, 1, currentTime),
            LAMBDA struck : ProcessEnemyAttacksMutantNoCooldown(struck, i + 1, currentTime))

RECURSIVE ProcessEnemyAttacks(_, _, _)
ProcessEnemyAttacks(st, i, currentTime) ==
  IF i > Len(st.enemies) THEN st
  ELSE IF \/ ~st.enemies[i].listed \/ ~st.enemies[i].isAlive
          \/ st.enemies[i].type = "breaker"
          \/ ~(currentTime - st.enemies[i].lastAttackTime >= st.enemies[i].attackCooldown)
    THEN ProcessEnemyAttacks(st, i + 1, currentTime)
  ELSE With(MeleeTowerLoop(st, i, 1, currentTime),
            LAMBDA struck : ProcessEnemyAttacks(struck, i + 1, currentTime))

\* this.towers = this.towers.filter((t) => t.isAlive), with the cells released
FilterTowers(ts) ==
  [k \in DOMAIN ts |-> [ts[k] EXCEPT !.listed = ts[k].listed /\ ts[k].isAlive]]

\* Tower.checkSilenced(), dateNow = Date.now()
CheckSilenced(tw, dateNow) ==
  IF tw.isSilenced /\ dateNow >= tw.silenceEndTime THEN [tw EXCEPT !.isSilenced = FALSE] ELSE tw

\* the tower loop of Game.draw: tower.draw calls checkSilenced
DrawTowers(ts, dateNow) ==
  [k \in DOMAIN ts |-> IF ts[k].listed THEN CheckSilenced(ts[k], dateNow) ELSE ts[k]]

\* Game.update(currentTime) up to the filters: the enemy loop over the
\* snapshot of live towers, the melee pass, the two filters
EnemyHalf(es, ts, occ, currentTime, skill, pick) ==
  With(With(With(AliveTowers(ts, 1),
                 LAMBDA aliveTowers :
                   EnemyPhase([ enemies |-> es, towers |-> ts, occupied |-> occ,
                                events |-> <<>> ],
                              1, currentTime, aliveTowers, skill, pick)),
            LAMBDA moved : ProcessEnemyAttacks(moved, 1, currentTime)),
       LAMBDA fought :
      [ enemies  |-> FilterEnemies(fought.enemies),
        towers   |-> FilterTowers(fought.towers),
        occupied |-> fought.occupied
                       \ { <<fought.towers[k].gridRow, fought.towers[k].gridCol>> :
                             k \in { j \in DOMAIN fought.towers :
                                       fought.towers[j].listed /\ ~fought.towers[j].isAlive } },
        events   |-> fought.events ])

(***************************************************************************)
(* Specification SpecSiege: whole frames of the game loop (Game.update and *)
(* the towers' draw) with enemies that attack towers, and tower cards      *)
(* dropped between frames.  A tower record carries listed = it is an       *)
(* element of Game.towers; a tower keeps its index when it is filtered.    *)
(***************************************************************************)
SiegeTower(row, col) == NewTower(row, col, "physical", 1) @@ [listed |-> TRUE]

\* an enemy on its way: a breaker that has locked onto tower k
LockedOn(e, k) == [e EXCEPT !.targetTower = k]

\* the boards a run starts from: a ghost and a walker between two towers; a breaker
\* walking to a tower two cells on; a breaker on the last segment of the route
\* with no tower built; a breaker and a boss between two towers
SiegeBoards ==
  { [ name |-> "ghost", t0 |-> 5000,
      enemies |-> << NewAttacker("ghost", WaveNumber, <<260, 260>>, 0),
                     NewAttacker("normal", WaveNumber, CellCenter(6, 6), 15) >>,
      towers |-> << SiegeTower(6, 7), SiegeTower(6, 5) >> ],
    [ name |-> "lock", t0 |-> 5000,
      enemies |-> << LockedOn(NewAttacker("breaker", WaveNumber, <<224, 260>>, 15), 1),
                     NewAttacker("breaker", WaveNumber, CellCenter(6, 6), 15) >>,
      towers |-> << SiegeTower(6, 4) >> ],
    [ name |-> "path", t0 |-> 5000,
      enemies |-> << NewAttacker("breaker", WaveNumber, <<290, 300>>, 17),
                     NewAttacker("tank", WaveNumber, <<296, 300>>, 17) >>,
      towers |-> <<>> ],
    [ name |-> "boss", t0 |-> 4000,
      enemies |-> << LockedOn(NewAttacker("breaker", WaveNumber, <<274, 260>>, 15), 1),
                     NewAttacker("boss", WaveNumber, CellCenter(6, 6), 15) >>,
      towers |-> << SiegeTower(6, 7), SiegeTower(6, 5) >> ] }

NoFrame == [ op |-> "init", events |-> <<>>, fired |-> {}, t |-> 0,
             preTowers |-> <<>>, preEnemies |-> <<>>, midTowers |-> <<>>,
             midEnemies |-> <<>>, uses |-> <<>> ]

InitSiege ==
  /\ \E board \in SiegeBoards :
       /\ enemies = board.enemies
       /\ towers = board.towers
       /\ now = board.t0
  /\ projectiles = <<>>
  /\ spellUsage = 0
  /\ occupied = OccupiedBy(towers)
  /\ rewardLoop = NoRewardCall
  /\ game = NoGame
  /\ steps = 0
  /\ last = NoFrame

\* some boss of the frame can use its skill
SkillReady(t) ==
  \E i \in DOMAIN enemies :
    enemies[i].listed /\ enemies[i].isAlive /\ CanUseSkill(enemies[i], t)

\* one frame of Game.gameLoop: update(currentTime) and draw().  skill and pick
\* are the draws of useSkill and of the silence target; crit and evade are the
\* projectiles whose critical roll, and whose target's evasion roll, succeed,
\* rolls being made only for the projectiles that collide with their target.
\* last.uses keeps the timestamps of every skill use and melee attack so far.
SiegeFrame(skill, pick) ==
  /\ steps < MaxSiegeTicks
  /\ ~SkillReady(now + FrameMs) => skill = "heal"
  /\ skill = "summon" => Len(enemies) + 3 <= MaxSiegeEnemies
  /\ pick < Len(AliveTowers(towers, 1)) \/ pick = 0
  /\ skill # "silence" => pick = 0
  /\ \E half \in { EnemyHalf(enemies, towers, occupied, now + FrameMs, skill, pick) } :
     \E shot \in { TowerLoop(half.towers, half.enemies, projectiles, 1, now + FrameMs) } :
     \E hitting \in { { k \in 1..Len(shot.projectiles) :
                           ProjectileUpdate(shot.projectiles[k], half.enemies, FALSE).hit
                             # NoHit } } :
     \E crit \in SUBSET hitting, evade \in SUBSET hitting :
     \E flown \in { ProjectileLoop(shot.projectiles, half.enemies, 1,
                                   [k \in 1..Len(shot.projectiles) |-> k \in crit],
                                   [k \in 1..Len(shot.projectiles) |-> k \in evade],
                                   DateNow(now + FrameMs)) } :
       /\ flown.ok
       /\ enemies' = flown.enemies
       /\ towers' = DrawTowers(shot.towers, DateNow(now + FrameMs))
       /\ occupied' = half.occupied
       /\ projectiles' = FilterProjectiles(flown.projectiles)
       /\ last' = [ op |-> "frame", events |-> half.events,
                    fired |-> { k \in DOMAIN shot.towers :
                                  shot.towers[k].lastFireTime = now + FrameMs },
                    t |-> now + FrameMs,
                    preTowers |-> towers, preEnemies |-> enemies,
                    midTowers |-> half.towers, midEnemies |-> half.enemies,
                    uses |-> last.uses
                             \o [n \in 1..Len(half.events) |->
                                   [ kind |-> half.events[n].kind,
                                     enemy |-> half.events[n].enemy,
                                     t |-> now + FrameMs ]] ]
  /\ now' = now + FrameMs
  /\ steps' = steps + 1
  /\ UNCHANGED <<spellUsage, rewardLoop, game>>

\* the cell a card is dropped on between two frames
SiegeCells == { <<6, 7>> }

\* Game.handleTowerDrop of a physical card on the centre of a cell
SiegeDrop(cell) ==
  /\ Len(towers) < MaxSiegeTowers
  /\ \E ids \in { AliveTowers(towers, 1) } :
     \E r \in { TowerDrop([n \in 1..Len(ids) |-> towers[ids[n]]], occupied, "physical",
                          CellCenter(cell[1], cell[2])[1], CellCenter(cell[1], cell[2])[2]) } :
       /\ r.ret
       /\ towers' =
            [k \in DOMAIN towers |->
               IF \E n \in 1..Len(ids) : ids[n] = k
                 THEN r.towers[CHOOSE n \in 1..Len(ids) : ids[n] = k] @@ [listed |-> TRUE]
               ELSE towers[k]]
              \o [n \in 1..(Len(r.towers) - Len(ids)) |->
                    r.towers[Len(ids) + n] @@ [listed |-> TRUE]]
       /\ occupied' = r.occupied
  /\ last' = [last EXCEPT !.op = "drop", !.events = <<>>, !.fired = {},
                          !.preTowers = towers, !.preEnemies = enemies,
                          !.midTowers = towers, !.midEnemies = enemies]
  /\ UNCHANGED <<enemies, projectiles, spellUsage, now, steps, rewardLoop, game>>

NextSiege ==
  \/ \E skill \in BossSkills, pick \in 0..(MaxSiegeTowers - 1) : SiegeFrame(skill, pick)
  \/ \E cell \in SiegeCells : SiegeDrop(cell)

SpecSiege == InitSiege /\ [][NextSiege]_vars

\* the events of the last frame of one kind
EventsOf(kind) == { n \in DOMAIN last.events : last.events[n].kind = kind }

\* C21: in the melee pass of a frame no ghost and no breaker damages a tower,
\* whatever its distance to the tower and the state of its cooldown.
C21_MeleeOnlyWalkers ==
  \A n \in EventsOf("melee") : last.events[n].attacker.type \notin { "ghost", "breaker" }

\* breaker i starts the frame alive, in contact with its live target tower
ContactAtStart(i) ==
  /\ last.preEnemies[i].listed /\ last.preEnemies[i].isAlive
  /\ last.preEnemies[i].type = "breaker"
  /\ last.preEnemies[i].targetTower # 0
  /\ last.preTowers[last.preEnemies[i].targetTower].isAlive
  /\ InContact(last.preEnemies[i], last.preTowers[last.preEnemies[i].targetTower])

\* tower k was destroyed in the last frame's enemy loop before enemy i's turn
DestroyedBefore(k, i) ==
  \E m \in EventsOf("selfDestruct") :
    last.events[m].tower = k /\ last.events[m].hp = 0 /\ last.events[m].enemy < i

\* the self-destruct events of enemy i in the last frame
SelfDestructs(i) == { n \in EventsOf("selfDestruct") : last.events[n].enemy = i }

\* C22: a live breaker in contact with its live target tower attacks it exactly
\* once: the tower takes the breaker's attackDamage and the breaker ends the
\* frame with health 0 and isAlive false.  No breaker attacks a tower twice in
\* its life, and a breaker that self-destructs does not also damage the base.
C22_BreakerSelfDestruct ==
  last.op = "frame" =>
    /\ \A i \in DOMAIN last.preEnemies :
         (ContactAtStart(i) /\ ~DestroyedBefore(last.preEnemies[i].targetTower, i))
           => /\ Cardinality(SelfDestructs(i)) = 1
              /\ \A n \in SelfDestructs(i) :
                   last.events[n].tower = last.preEnemies[i].targetTower
    /\ \A n \in EventsOf("selfDestruct") :
         /\ last.events[n].attacker.type = "breaker"
         /\ last.events[n].before.isAlive
         /\ last.events[n].damage = last.events[n].attacker.attackDamage
         /\ last.events[n].hp = Max(0, last.events[n].before.hp - last.events[n].damage)
         /\ last.midEnemies[last.events[n].enemy].health = 0
         /\ ~last.midEnemies[last.events[n].enemy].isAlive
         /\ enemies[last.events[n].enemy].health = 0
         /\ ~enemies[last.events[n].enemy].isAlive
    /\ \A a, b \in DOMAIN last.uses :
         (/\ a # b
          /\ last.uses[a].enemy = last.uses[b].enemy
          /\ last.uses[a].kind = "selfDestruct")
           => last.uses[b].kind \notin { "selfDestruct", "melee", "leak" }

\* a breaker that started the frame in contact with its target has struck it
C22_Witness ==
  /\ last.op = "frame"
  /\ \E i \in DOMAIN last.preEnemies : ContactAtStart(i) /\ SelfDestructs(i) # {}

\* the tower under the last card drop, 0 for none
DropTarget == GetTowerAt(last.pre, DropCell[1], DropCell[2])

\* tower tw is tower old one level up: stats re-derived for its element and the
\* new level, hit points full
LevelledUp(old, tw) ==
  /\ tw.level = old.level + 1
  /\ tw.element = old.element
  /\ tw.range = TowerConfigByElement(old.element, old.level + 1).range
  /\ tw.fireRate = TowerConfigByElement(old.element, old.level + 1).fireRate
  /\ tw.baseDamage = TowerConfigByElement(old.element, old.level + 1).damage
  /\ tw.size = TowerConfigByElement(old.element, old.level + 1).size
  /\ tw.maxHp = 100 + old.level * 50
  /\ tw.hp = tw.maxHp

\* C23: a card of a tower's element dropped on the tower while its level is
\* below 3 raises the level by exactly one, with the stats of the new level and
\* full hit points, so that a level-2 tower merges to level 3; at level 3 or
\* with another element the drop is rejected and the towers are unchanged; a
\* tower's level is always one of 1, 2, 3.
C23_MergeReachesMaxLevel ==
  /\ \A k \in DOMAIN towers : towers[k].level \in 1..MaxTowerLevel
  /\ (last.op = "cardDrop" /\ DropTarget # 0) =>
       IF last.pre[DropTarget].element = last.element
            /\ last.pre[DropTarget].level < MaxTowerLevel
         THEN last.ret /\ LevelledUp(last.pre[DropTarget], last.mid[DropTarget])
       ELSE ~last.ret /\ last.mid = last.pre

\* the towers after the previewed card is dropped on the previewed cell
Committed ==
  TowerDrop(last.pre, occupied, last.element,
            CellCenter(last.cell[1], last.cell[2])[1],
            CellCenter(last.cell[1], last.cell[2])[2]).towers

\* the previewed cell is free: no tower on it and a tower may be placed there
PreviewOnFreeCell ==
  /\ last.op = "preview"
  /\ GetTowerAt(last.pre, last.cell[1], last.cell[2]) = 0
  /\ CanPlaceTower(last.cell[1], last.cell[2], occupied)

\* the existing towers in the four cells sharing an edge with the previewed
\* cell whose synergy list the placement changes
ChangedNeighbours ==
  { k \in DOMAIN last.pre :
      /\ Abs(last.pre[k].gridRow - last.cell[1]) + Abs(last.pre[k].gridCol - last.cell[2]) = 1
      /\ Committed[k].activeSynergies # last.pre[k].activeSynergies }

\* C24: for a free cell and any element, the newTowerSynergies of the preview
\* are the activeSynergies the new tower has once it is placed and synergies
\* are recomputed, and affectedTowers lists, once each, exactly the orthogonal
\* neighbours whose synergy list the placement changes, each with the list it
\* has after the placement.
C24_PreviewAgreesWithCommit ==
  PreviewOnFreeCell =>
    /\ Len(Committed) = Len(last.pre) + 1
    /\ last.newTowerSynergies = Committed[Len(Committed)].activeSynergies
    /\ { last.affectedTowers[n].tower : n \in DOMAIN last.affectedTowers } = ChangedNeighbours
    /\ Len(last.affectedTowers) = Cardinality(ChangedNeighbours)
    /\ \A n \in DOMAIN last.affectedTowers :
         last.affectedTowers[n].newSynergies
           = Committed[last.affectedTowers[n].tower].activeSynergies

\* a preview over a free cell between two towers, one whose synergies the
\* placement changes and one whose synergies it leaves alone, the new tower
\* gaining a synergy itself
C24_Witness ==
  /\ PreviewOnFreeCell
  /\ last.newTowerSynergies # <<>>
  /\ ChangedNeighbours # {}
  /\ \E k \in DOMAIN last.pre :
       /\ Abs(last.pre[k].gridRow - last.cell[1]) + Abs(last.pre[k].gridCol - last.cell[2]) = 1
       /\ k \notin ChangedNeighbours

\* tower k entered the last frame silenced and is in the tower list at its end
WasSilenced(k) ==
  k \in DOMAIN last.preTowers /\ last.preTowers[k].isSilenced /\ towers[k].listed

\* at the last frame's tower loop tower k is in the list with a live target in
\* range and its fire interval passed
CouldFire(k) ==
  /\ last.midTowers[k].listed /\ last.midTowers[k].isAlive
  /\ FindTarget(last.midTowers[k], last.midEnemies).currentTarget # 0
  /\ last.midEnemies[FindTarget(last.midTowers[k], last.midEnemies).currentTarget].isAlive
  /\ IsInRange(last.midTowers[k],
               last.midEnemies[FindTarget(last.midTowers[k], last.midEnemies).currentTarget])
  /\ last.t - last.midTowers[k].lastFireTime >= last.midTowers[k].fireRate

\* C25: a tower silenced by a boss produces no projectile in a frame that
\* starts before the 3000 ms of the silence are over; in a frame at or after
\* their end the tower is no longer silenced, and it fires in that frame when
\* it has a live target in range and its fire interval has passed.
C25_SilenceEnds ==
  last.op = "frame" =>
    \A k \in DOMAIN last.preTowers :
      WasSilenced(k) =>
        IF DateNow(last.t) < last.preTowers[k].silenceEndTime
          THEN k \notin last.fired
        ELSE /\ ~towers[k].isSilenced
             /\ CouldFire(k) => k \in last.fired

UsesOf(kind) == { n \in DOMAIN last.uses : last.uses[n].kind = kind }

\* C27: a skill is used only by a live boss and only in a frame whose
\* timestamp is at least skillCooldown after the boss's lastSkillTime, which
\* the use sets to that timestamp; two skill uses of one boss are never less
\* than skillCooldown apart; an enemy that is not a boss never uses a skill.
C27_SkillCooldownGate ==
  /\ \A n \in EventsOf("skill") :
       /\ EnemyTypeConfig(last.events[n].attacker.type).isBoss
       /\ last.events[n].attacker.isAlive
       /\ last.t - last.events[n].attacker.lastSkillTime
            >= last.events[n].attacker.skillCooldown
       /\ last.midEnemies[last.events[n].enemy].lastSkillTime = last.t
  /\ \A a, b \in UsesOf("skill") :
       (a < b /\ last.uses[a].enemy = last.uses[b].enemy)
         => last.uses[b].t - last.uses[a].t >= enemies[last.uses[a].enemy].skillCooldown
  /\ \A i \in DOMAIN enemies :
       ~EnemyTypeConfig(enemies[i].type).isBoss => enemies[i].lastSkillTime = 0

\* a boss has used its skill twice
C27_Witness ==
  \E a, b \in UsesOf("skill") : a < b /\ last.uses[a].enemy = last.uses[b].enemy

\* C28: in the melee pass of a frame an enemy attacks at most one tower, a
\* live one closer than 1.5 grid cells (60 px), and two successive melee
\* attacks of one enemy are at least the enemy's attackCooldown apart in frame
\* timestamps.
C28_MeleeCooldownGate ==
  /\ \A n, m \in EventsOf("melee") : last.events[n].enemy = last.events[m].enemy => n = m
  /\ \A n \in EventsOf("melee") :
       /\ last.events[n].before.isAlive
       /\ last.events[n].attacker.isAlive
       /\ Dist2(last.events[n].attacker.pos, last.events[n].before.pos) < 60 * 60
       /\ last.t - last.events[n].attacker.lastAttackTime
            >= last.events[n].attacker.attackCooldown
  /\ \A a, b \in UsesOf("melee") :
       (a < b /\ last.uses[a].enemy = last.uses[b].enemy)
         => last.uses[b].t - last.uses[a].t >= enemies[last.uses[a].enemy].attackCooldown

\* an enemy within 60 px of two live towers has attacked one of them, and an
\* enemy has made two melee attacks
C28_Witness ==
  /\ \E n \in EventsOf("melee") :
       \E k \in DOMAIN last.preTowers :
         /\ k # last.events[n].tower
         /\ last.preTowers[k].isAlive
         /\ Dist2(last.events[n].attacker.pos, last.preTowers[k].pos) < 60 * 60
         /\ towers[k].hp = last.preTowers[k].hp
  /\ \E a, b \in UsesOf("melee") : a < b /\ last.uses[a].enemy = last.uses[b].enemy

\* breaker i is alive and in the list at the start of the last frame
BreakerAtStart(i) ==
  /\ last.op = "frame"
  /\ last.preEnemies[i].listed /\ last.preEnemies[i].isAlive
  /\ last.preEnemies[i].type = "breaker"

\* tower k is alive when enemy i's turn comes in the last frame's enemy loop
AliveAtTurn(k, i) ==
  /\ k # 0
  /\ last.preTowers[k].listed /\ last.preTowers[k].isAlive
  /\ ~DestroyedBefore(k, i)

\* C29: a breaker whose cached target tower is alive keeps that target, also
\* when a nearer tower has been placed; it takes a new target only when the
\* cached one is dead or absent, and then the nearest living tower; with no
\* living tower it follows its waypoint path, and at the path's end it damages
\* the base.
C29_BreakerLockOn ==
  \A i \in DOMAIN last.preEnemies :
    BreakerAtStart(i) =>
      /\ AliveAtTurn(last.preEnemies[i].targetTower, i)
           => last.midEnemies[i].targetTower = last.preEnemies[i].targetTower
      /\ last.midEnemies[i].targetTower # last.preEnemies[i].targetTower
           => /\ ~AliveAtTurn(last.preEnemies[i].targetTower, i)
              /\ AliveAtTurn(last.midEnemies[i].targetTower, i)
              /\ \A j \in DOMAIN last.preTowers :
                   AliveAtTurn(j, i)
                     => Dist2(last.preEnemies[i].pos,
                              last.preTowers[last.midEnemies[i].targetTower].pos)
                          <= Dist2(last.preEnemies[i].pos, last.preTowers[j].pos)
      /\ (\A j \in DOMAIN last.preTowers : ~AliveAtTurn(j, i))
           => /\ SelfDestructs(i) = {}
              /\ LET r == FollowPathOn(last.preEnemies[i], Route0Path,
                                       Stride(last.preEnemies[i].speed))
                 IN  /\ last.midEnemies[i].pos = r.enemy.pos
                     /\ last.midEnemies[i].pathIndex = r.enemy.pathIndex
                     /\ r.reached <=> \E n \in EventsOf("leak") : last.events[n].enemy = i

\* a breaker has kept its live target through a frame at whose start another
\* live tower was nearer to it
C29_Witness ==
  \E i \in DOMAIN last.preEnemies :
    /\ BreakerAtStart(i)
    /\ AliveAtTurn(last.preEnemies[i].targetTower, i)
    /\ last.midEnemies[i].targetTower = last.preEnemies[i].targetTower
    /\ \E j \in DOMAIN last.preTowers :
         /\ AliveAtTurn(j, i)
         /\ Dist2(last.preEnemies[i].pos, last.preTowers[j].pos)
              < Dist2(last.preEnemies[i].pos,
                      last.preTowers[last.preEnemies[i].targetTower].pos)

\* a breaker with no living tower on the board has walked to the end of its
\* path and damaged the base
BreakerLeaked ==
  \E n \in EventsOf("leak") :
    last.events[n].attacker.type = "breaker" /\ AliveTowers(last.preTowers, 1) = <<>>

(***************************************************************************)
(* Specification SpecFreeze: one enemy of any archetype, frozen by         *)
(* freeze(duration) and moved by update(towers) as wall-clock time passes. *)
(***************************************************************************)
EnemyTypes == { "normal", "tank", "breaker", "ghost", "boss" }


\* milliseconds between two calls of update
UpdateDelays == { 100, FrameMs }

InitFreeze ==
  /\ \E type \in EnemyTypes :
       enemies = << NewAttacker(type, WaveNumber, CellCenter(6, 6),
                                IF type = "ghost" THEN 0 ELSE 15) >>
  /\ towers = << SiegeTower(6, 4) >>
  /\ projectiles = <<>>
  /\ spellUsage = 0
  /\ occupied = OccupiedBy(towers)
  /\ rewardLoop = NoRewardCall
  /\ game = NoGame
  /\ now = 5000
  /\ steps = 0
  /\ last = [ op |-> "init", pre |-> enemies[1], reached |-> FALSE, dateNow |-> DateNow(now),
              wasHeld |-> FALSE ]

\* enemy.freeze(config.freezeDuration) of the freeze reaction
FreezeHit ==
  /\ steps < MaxUpdates
  /\ enemies[1].isAlive
  /\ enemies' = << Freeze(enemies[1], FreezeDuration, DateNow(now)) >>
  /\ last' = [last EXCEPT !.op = "freeze", !.pre = enemies[1], !.reached = FALSE,
                          !.dateNow = DateNow(now)]
  /\ steps' = steps + 1
  /\ UNCHANGED <<towers, projectiles, spellUsage, now, occupied, rewardLoop, game>>

\* enemy.update(aliveTowers), dt ms after the previous call; an enemy that
\* reaches its goal is marked dead by the caller
EnemyUpdateCall(dt) ==
  /\ steps < MaxUpdates
  /\ enemies[1].isAlive
  /\ \E r \in { EnemyUpdate(enemies[1], towers, AliveTowers(towers, 1), Route0Path,
                            DateNow(now + dt),
                            (enemies[1].phase + 1) % Period(enemies[1].speed) = 0) } :
       /\ enemies' = << [r.enemy EXCEPT
                           !.phase = IF r.enemy.isFrozen THEN @
                                     ELSE (enemies[1].phase + 1) % Period(enemies[1].speed),
                           !.isAlive = ~r.reached] >>
       /\ last' = [ op |-> "update", pre |-> enemies[1], reached |-> r.reached,
                    dateNow |-> DateNow(now + dt),
                    wasHeld |-> last.wasHeld \/ r.enemy.isFrozen ]
  /\ now' = now + dt
  /\ steps' = steps + 1
  /\ UNCHANGED <<towers, projectiles, spellUsage, occupied, rewardLoop, game>>

NextFreeze ==
  \/ FreezeHit
  \/ \E dt \in UpdateDelays : EnemyUpdateCall(dt)

SpecFreeze == InitFreeze /\ [][NextFreeze]_vars

\* the movement rule of the archetype applied to enemy e: straight to the base
\* for a ghost, to the nearest live tower for a breaker, along the path else
MovementRule(e) ==
  LET stride == IF (e.phase + 1) % Period(e.baseSpeed) = 0 THEN Stride(e.baseSpeed) ELSE 0
      nearest == FindNearestTower(e, towers, AliveTowers(towers, 1), 1, 0)
  IN  IF e.type = "ghost" THEN MoveTowardsBase(e, stride)
      ELSE IF e.type = "breaker" /\ nearest # 0
        THEN MoveTowardsTower(e, towers[nearest], stride)
      ELSE FollowPathOn(e, Route0Path, stride)

\* C30: an update of a frozen enemy before its freezeEndTime leaves position
\* and path index unchanged and returns false, for every archetype; the first
\* update at or after freezeEndTime clears the frozen flag and moves the
\* enemy by its archetype's movement rule.
C30_FreezeHaltsMovement ==
  (last.op = "update" /\ last.pre.isFrozen) =>
    IF last.dateNow < last.pre.freezeEndTime
      THEN /\ enemies[1].pos = last.pre.pos
           /\ enemies[1].pathIndex = last.pre.pathIndex
           /\ ~last.reached
           /\ enemies[1].isFrozen
    ELSE /\ ~enemies[1].isFrozen
         /\ enemies[1].pos = MovementRule(last.pre).enemy.pos
         /\ enemies[1].pathIndex = MovementRule(last.pre).enemy.pathIndex
         /\ last.reached = MovementRule(last.pre).reached

\* an enemy held in place by an update while frozen has thawed in a later
\* update and moved on
C30_Witness ==
  /\ last.op = "update"
  /\ last.wasHeld
  /\ last.pre.isFrozen
  /\ last.dateNow >= last.pre.freezeEndTime
  /\ enemies[1].pos # last.pre.pos

(***************************************************************************)
(* Properties of the reactions' effects (SpecReaction)                     *)
(***************************************************************************)
\* C31 (status after a reaction): after a hit that fired melt, freeze or
\* explosion the primary target's status tag is none; after freeze it is
\* immobilized (isFrozen) with no tag; and a hit on such a frozen, untagged
\* enemy fires no reaction and leaves the incoming element as its status.
C31_ReactionClearsStatus ==
  /\ (last.op = "hit" /\ last.reaction # None) =>
       /\ enemies[HitTarget].status = None
       /\ enemies[HitTarget].statusDuration = 0
       /\ (last.reaction = "freeze" => enemies[HitTarget].isFrozen)
  /\ (/\ last.op = "hit"
      /\ last.pre[HitTarget].isFrozen
      /\ last.pre[HitTarget].status = None) =>
       /\ last.reaction = None
       /\ last.mid[HitTarget].status = last.element
       /\ last.mid[HitTarget].statusDuration = StatusDuration

C31_Witness ==
  /\ last.op = "hit"
  /\ last.reaction = "freeze"
  /\ enemies[HitTarget].type = "boss"
  /\ enemies[HitTarget].isFrozen
  /\ enemies[HitTarget].status = None

\* a fresh status on an enemy frozen by the freeze reaction
FrozenTaggedAfresh ==
  /\ last.op = "hit"
  /\ last.pre[HitTarget].isFrozen
  /\ last.pre[HitTarget].status = None
  /\ last.element = "fire"
  /\ enemies[HitTarget].status = "fire"

\* the enemies other than the primary that the explosion of the last hit caught
CaughtInBlast ==
  { j \in EnemyIds \ {HitTarget} :
      /\ last.pre[j].isAlive
      /\ Dist2(last.pre[j].pos, last.pre[HitTarget].pos)
           <= ExplosionRadius * ExplosionRadius }

\* C32 (explosion side effects): a secondary enemy caught in the radius only
\* loses health: its status tag is unchanged unless it was oil, which is
\* cleared, and it never acquires fire; enemies outside the radius are
\* untouched; affectedEnemies holds the primary exactly once and exactly the
\* other enemies that were alive and within the radius, each once.
C32_ExplosionSecondaries ==
  (last.op = "hit" /\ last.reaction = "explosion") =>
    /\ \A j \in CaughtInBlast :
         /\ enemies[j].status =
              (IF last.pre[j].status = "oil" THEN None ELSE last.pre[j].status)
         /\ enemies[j].status # "fire" \/ last.pre[j].status = "fire"
         /\ enemies[j].isFrozen = last.pre[j].isFrozen
         /\ enemies[j].freezeEndTime = last.pre[j].freezeEndTime
         /\ enemies[j].pos = last.pre[j].pos
    /\ \A j \in EnemyIds \ (CaughtInBlast \cup {HitTarget}) : enemies[j] = last.pre[j]
    /\ Cardinality({ k \in DOMAIN last.affected : last.affected[k] = HitTarget }) = 1
    /\ { last.affected[k] : k \in DOMAIN last.affected } = CaughtInBlast \cup {HitTarget}
    /\ Len(last.affected) = Cardinality(CaughtInBlast) + 1

C32_Witness ==
  /\ last.op = "hit"
  /\ last.reaction = "explosion"
  /\ \E j \in CaughtInBlast :
       /\ last.pre[j].status = "ice"
       /\ enemies[j].status = "ice"
       /\ enemies[j].health < last.pre[j].health
       /\ last.affected = << HitTarget, j >>

\* an explosion whose secondary stands in the radius with the oil tag
OilClearedByBlast ==
  /\ last.op = "hit"
  /\ last.reaction = "explosion"
  /\ \E j \in CaughtInBlast : last.pre[j].status = "oil" /\ enemies[j].status = None

\* an explosion with the other enemy alive and out of the radius
BlastMissesSecondary ==
  /\ last.op = "hit"
  /\ last.reaction = "explosion"
  /\ \E j \in EnemyIds \ {HitTarget} :
       /\ last.pre[j].isAlive
       /\ Dist2(last.pre[j].pos, last.pre[HitTarget].pos) > ExplosionRadius * ExplosionRadius
  /\ last.affected = << HitTarget >>

\* an explosion with a dead enemy inside the radius
BlastSkipsDead ==
  /\ last.op = "hit"
  /\ last.reaction = "explosion"
  /\ \E j \in EnemyIds \ {HitTarget} :
       /\ ~last.pre[j].isAlive
       /\ Dist2(last.pre[j].pos, last.pre[HitTarget].pos) <= ExplosionRadius * ExplosionRadius
  /\ last.affected = << HitTarget >>

\* C33 (reported reaction damage): the damage field of the ReactionResult is
\* the damage the reaction applied to the primary target: 3 x base for melt,
\* floor(1.5 x base) for explosion and 0 for freeze, and the target lost that
\* amount (capped by its health).
C33_ReportedReactionDamage ==
  (last.op = "hit" /\ last.reaction # None) =>
    LET applied == CASE last.reaction = "melt"      -> 3 * last.damage
                     [] last.reaction = "explosion" -> (3 * last.damage) \div 2
                     [] last.reaction = "freeze"    -> 0
    IN  /\ last.ret = applied
        /\ HealthLost(last.pre[HitTarget], enemies[HitTarget])
             = Min(last.pre[HitTarget].health, last.ret)

(***************************************************************************)
(* Degenerate geometry: Enemy.update and the projectile of a tower, with   *)
(* the enemy standing exactly on the point it is heading for               *)
(***************************************************************************)
\* the enemy's archetype, position and pathIndex, and whether a tower stands
\* on cell (6, 4): on its next waypoint (the path lists each corner twice),
\* on the tower, on the base, and one cell away from each
GeometryBoards ==
  { << type, Route0Path[4], 2, tw >> :
      type \in { "normal", "tank", "boss" }, tw \in BOOLEAN }
  \cup { << "breaker", Route0Path[4], 2, FALSE >>, << "breaker", Route0Path[3], 1, FALSE >> }
  \cup { << type, CellCenter(6, 4), 15, TRUE >> : type \in { "breaker", "ghost" } }
  \cup { << type, CellCenter(6, 5), 15, TRUE >> : type \in { "breaker", "ghost" } }
  \cup { << "ghost", BasePosition, 0, tw >> : tw \in BOOLEAN }
  \cup { << type, CellCenter(6, 6), 15, TRUE >> : type \in EnemyTypes }

InitGeometry ==
  /\ \E b \in GeometryBoards :
       /\ enemies = << NewAttacker(b[1], WaveNumber, b[2], b[3]) >>
       /\ towers = IF b[4] THEN << SiegeTower(6, 4) >> ELSE << >>
  /\ projectiles = <<>>
  /\ spellUsage = 0
  /\ occupied = OccupiedBy(towers)
  /\ rewardLoop = NoRewardCall
  /\ game = NoGame
  /\ now = 5000
  /\ steps = 0
  /\ last = [ op |-> "init" ]

\* enemy.update(aliveTowers) in the next frame; an enemy that reaches its goal
\* is marked dead by the caller
GeometryUpdate ==
  /\ now < 5000 + MaxUpdates * FrameMs
  /\ enemies[1].isAlive
  /\ \E r \in { EnemyUpdate(enemies[1], towers, AliveTowers(towers, 1), Route0Path,
                            DateNow(now + FrameMs),
                            (enemies[1].phase + 1) % Period(enemies[1].speed) = 0) } :
       /\ enemies' = << [r.enemy EXCEPT
                           !.phase = (enemies[1].phase + 1) % Period(enemies[1].speed),
                           !.isAlive = ~r.reached] >>
       /\ last' = [ op |-> "move", pre |-> enemies[1], reached |-> r.reached ]
  /\ now' = now + FrameMs
  /\ UNCHANGED <<towers, projectiles, spellUsage, steps, occupied, rewardLoop, game>>

NextGeometry ==
  \/ GeometryUpdate
  \/ \E k \in DOMAIN towers, i \in DOMAIN enemies : Fire(k, i)
  \/ \E k \in DOMAIN projectiles, c \in BOOLEAN, e \in BOOLEAN : ProjectileStep(k, c, e)

SpecGeometry == InitGeometry /\ [][NextGeometry]_vars

\* the point the enemy e is heading for when update is called, None when it
\* has none (goal reached, frozen or dead)
HeadingFor(e) ==
  IF ~e.isAlive \/ e.isFrozen THEN None
  ELSE IF e.type = "ghost" THEN BasePosition
  ELSE IF e.type = "breaker" /\ Len(AliveTowers(towers, 1)) > 0
    THEN towers[IF e.targetTower # 0 /\ towers[e.targetTower].isAlive THEN e.targetTower
                ELSE FindNearestTower(e, towers, AliveTowers(towers, 1), 1, 0)].pos
  ELSE IF e.pathIndex >= Len(Route0Path) - 1 THEN None
  ELSE Route0Path[e.pathIndex + 2]

IsNumber(v) == v[1] # NaN /\ v[2] # NaN

\* C34 (degenerate geometry): no position or velocity is ever NaN; an enemy
\* standing exactly on the point it is heading for (a breaker on its target
\* tower, a ghost on the base, a path follower on its next waypoint) does not
\* move in that update; a projectile created exactly at its target's centre
\* has velocity (0, 0) and does not move in its update.
C34_DegenerateGeometry ==
  /\ \A i \in DOMAIN enemies : IsNumber(enemies[i].pos)
  /\ \A k \in DOMAIN projectiles :
       IsNumber(projectiles[k].pos) /\ IsNumber(projectiles[k].velocity)
  /\ (last.op = "move" /\ HeadingFor(last.pre) = last.pre.pos) =>
       enemies[1].pos = last.pre.pos
  /\ (last.op = "fire" /\ enemies[projectiles[1].target].pos = towers[last.k].pos) =>
       /\ projectiles[1].velocity = << 0, 0 >>
       /\ projectiles[1].pos = towers[last.k].pos
  /\ (/\ last.op = "update"
      /\ last.targetAlive
      /\ last.pre[last.before.target].pos = last.before.pos) =>
       projectiles[last.k].pos = last.before.pos

C34_Witness ==
  /\ last.op = "update"
  /\ last.targetAlive
  /\ last.pre[last.before.target].pos = last.before.pos
  /\ last.before.velocity = << 0, 0 >>
  /\ projectiles[last.k].pos = last.before.pos

\* the three degenerate updates of an enemy
BreakerOnTower ==
  /\ last.op = "move"
  /\ last.pre.type = "breaker"
  /\ Len(towers) = 1
  /\ last.pre.pos = towers[1].pos
  /\ last.reached

GhostOnBase ==
  /\ last.op = "move"
  /\ last.pre.type = "ghost"
  /\ last.pre.pos = BasePosition
  /\ last.reached

FollowerOnWaypoint ==
  /\ last.op = "move"
  /\ last.pre.type \in { "tank", "breaker" }
  /\ last.pre.pos = Route0Path[last.pre.pathIndex + 2]
  /\ enemies[1].pathIndex = last.pre.pathIndex + 1
  /\ enemies[1].pos = last.pre.pos

\* the enemies the last operation brought from alive to dead
KilledNow == { j \in EnemyIds : last.pre[j].isAlive /\ ~enemies[j].isAlive }

\* C35 (kill accounting): every enemy whose health a projectile hit brought
\* to zero (the target of a direct hit or of a reaction, or a secondary victim
\* of an explosion) is counted as a kill exactly once, and nothing else is.
C35_KillAccounting ==
  last.op \in {"hit", "evade"} =>
    /\ { last.counted[k] : k \in DOMAIN last.counted } = KilledNow
    /\ Len(last.counted) = Cardinality(KilledNow)

(***************************************************************************)
(* The game session: title screen, start button, game loop, shop, game     *)
(* over.  game.onField is this.enemies.length, game.frame tells whether a  *)
(* requestAnimationFrame callback is pending, game.returnListeners counts  *)
(* the one-shot returnToTitle listeners on the start button, and           *)
(* game.recorded the addGameResult calls since startNewGame.               *)
(***************************************************************************)
WaveClearBonus == 50
MaxInterest == 30
BaseDamage == 10
BaseRepairAmount == 30
ShopItems == { "base_repair", "reroll_token" }
ShopPrice(item) == IF item = "base_repair" THEN 20 ELSE 30

\* the Game constructor
NewGame ==
  [ scene |-> "title", gameState |-> "idle", baseHP |-> MaxBaseHP, waveNumber |-> 1,
    enemiesSpawned |-> 0, enemiesPerWave |-> 16, onField |-> 0, frame |-> FALSE,
    isPaused |-> FALSE, tokens |-> 0, startDisabled |-> FALSE, returnListeners |-> 0,
    recorded |-> 0 ]

\* Game.resetGameState() and the rest of Game.startNewGame()
StartNewGame(g) ==
  [g EXCEPT !.scene = "game", !.gameState = "idle", !.baseHP = MaxBaseHP,
            !.waveNumber = 1, !.enemiesSpawned = 0, !.enemiesPerWave = 16,
            !.onField = 0, !.tokens = 0, !.startDisabled = FALSE, !.recorded = 0]

\* Game.gameOver()
GameOver(g) ==
  [g EXCEPT !.gameState = "gameover", !.frame = FALSE, !.recorded = @ + 1,
            !.startDisabled = FALSE, !.returnListeners = @ + 1]

\* Game.endWave(), with EconomyManager.applyWaveClearBonus()
EndWave(g) ==
  [g EXCEPT !.frame = FALSE,
            !.tokens = @ + WaveClearBonus + Min(@ \div 10, MaxInterest),
            !.gameState = "shop", !.startDisabled = TRUE]

\* Game.gameLoop(currentTime): spawn = enemies spawnEnemies adds, reach = the
\* enemies whose update() reports the goal, kill = the enemies the towers kill
GameLoop(g, spawn, reach, kill) ==
  IF g.isPaused THEN g
  ELSE IF g.baseHP <= 0 THEN GameOver(g)
  ELSE LET updated == [g EXCEPT !.enemiesSpawned = @ + spawn,
                                !.baseHP = @ - BaseDamage * reach,
                                !.onField = @ + spawn - reach - kill]
       IN  IF updated.enemiesSpawned >= updated.enemiesPerWave /\ updated.onField = 0
             THEN EndWave(updated)
           ELSE [updated EXCEPT !.frame = TRUE]

\* Game.startWave()
StartWave(g, spawn, reach, kill) ==
  IF g.scene # "game" \/ g.gameState = "playing" THEN g
  ELSE GameLoop([g EXCEPT !.gameState = "playing", !.enemiesSpawned = 0,
                          !.startDisabled = TRUE,
                          !.enemiesPerWave = 12 + g.waveNumber * 4],
                spawn, reach, kill)

\* Game.returnToTitle()
ReturnToTitle(g) ==
  [g EXCEPT !.isPaused = FALSE, !.frame = FALSE, !.gameState = "idle", !.scene = "title"]

\* Game.handleShopPurchase(item)
HandleShopPurchase(g, item) ==
  IF g.tokens < ShopPrice(item) THEN g
  ELSE [g EXCEPT !.tokens = @ - ShopPrice(item),
                 !.baseHP = IF item = "base_repair"
                            THEN Min(MaxBaseHP, @ + BaseRepairAmount) ELSE @]

\* Game.prepareNextWave()
PrepareNextWave(g) ==
  [g EXCEPT !.gameState = "idle", !.waveNumber = @ + 1, !.startDisabled = FALSE]

\* the inputs of one frame: at most one spawn, the enemies already on the
\* field that reach the goal or are killed
FrameInputs(g) ==
  { in \in (0..1) \X (0..2) \X (0..1) :
      /\ in[1] = 1 => g.enemiesSpawned < g.enemiesPerWave
      /\ in[2] + in[3] <= g.onField }

\* what the history keeps of the Game before an operation
Before(g) == [ baseHP |-> g.baseHP, gameState |-> g.gameState, recorded |-> g.recorded ]

InitSession ==
  /\ enemies = <<>>
  /\ towers = <<>>
  /\ projectiles = <<>>
  /\ spellUsage = 0
  /\ occupied = OccupiedBy(towers)
  /\ rewardLoop = NoRewardCall
  /\ game = NewGame
  /\ now = 0
  /\ steps = 0
  /\ last = [ op |-> "init", pre |-> Before(NewGame) ]

\* the title screen's start callback
TitleStart ==
  /\ game.scene = "title"
  /\ game' = StartNewGame(game)
  /\ last' = [ op |-> "newGame", pre |-> Before(game) ]
  /\ UNCHANGED <<enemies, towers, projectiles, spellUsage, now, steps, occupied, rewardLoop>>

\* a click on the start button: the listener of setupEventListeners, then the
\* returnToTitle listeners that were on the button when the click began
StartClick(in) ==
  /\ game.scene = "game"
  /\ ~game.startDisabled
  /\ in \in (IF game.gameState = "gameover" THEN { << 0, 0, 0 >> } ELSE FrameInputs(game))
  /\ \E started \in { StartWave(game, in[1], in[2], in[3]) } :
       game' = IF game.returnListeners = 0 THEN started
               ELSE ReturnToTitle([started EXCEPT
                                     !.returnListeners = @ - game.returnListeners])
  /\ last' = [ op |-> "startClick", pre |-> Before(game) ]
  /\ UNCHANGED <<enemies, towers, projectiles, spellUsage, now, steps, occupied, rewardLoop>>

\* the pending requestAnimationFrame callback
Frame(in) ==
  /\ game.frame
  /\ in \in FrameInputs(game)
  /\ game' = GameLoop([game EXCEPT !.frame = FALSE], in[1], in[2], in[3])
  /\ last' = [ op |-> "frame", pre |-> Before(game) ]
  /\ UNCHANGED <<enemies, towers, projectiles, spellUsage, now, steps, occupied, rewardLoop>>

\* a click on the pause button: Game.togglePause()
PauseClick(in) ==
  /\ game.scene = "game"
  /\ in \in (IF game.isPaused THEN FrameInputs(game) ELSE { << 0, 0, 0 >> })
  /\ game' = IF game.isPaused
               THEN GameLoop([game EXCEPT !.isPaused = FALSE], in[1], in[2], in[3])
             ELSE IF game.gameState # "playing" THEN game
             ELSE [game EXCEPT !.isPaused = TRUE, !.frame = FALSE]
  /\ game' # game
  /\ last' = [ op |-> "pauseClick", pre |-> Before(game) ]
  /\ UNCHANGED <<enemies, towers, projectiles, spellUsage, now, steps, occupied, rewardLoop>>

\* a click on the pause overlay's return-to-title button
PauseReturn ==
  /\ game.isPaused
  /\ game' = ReturnToTitle(game)
  /\ last' = [ op |-> "pauseReturn", pre |-> Before(game) ]
  /\ UNCHANGED <<enemies, towers, projectiles, spellUsage, now, steps, occupied, rewardLoop>>

\* a click on an affordable shop item
ShopPurchase(item) ==
  /\ game.scene = "game"
  /\ game.gameState = "shop"
  /\ game.tokens >= ShopPrice(item)
  /\ game' = HandleShopPurchase(game, item)
  /\ last' = [ op |-> "purchase", pre |-> Before(game) ]
  /\ UNCHANGED <<enemies, towers, projectiles, spellUsage, now, steps, occupied, rewardLoop>>

\* the shop's continue button
ShopContinue ==
  /\ game.scene = "game"
  /\ game.gameState = "shop"
  /\ game.waveNumber < MaxWaves
  /\ game' = PrepareNextWave(game)
  /\ last' = [ op |-> "continue", pre |-> Before(game) ]
  /\ UNCHANGED <<enemies, towers, projectiles, spellUsage, now, steps, occupied, rewardLoop>>

NextSession ==
  \/ TitleStart
  \/ \E in \in (0..1) \X (0..2) \X (0..1) : StartClick(in)
  \/ \E in \in (0..1) \X (0..2) \X (0..1) : Frame(in)
  \/ \E in \in (0..1) \X (0..2) \X (0..1) : PauseClick(in)
  \/ PauseReturn
  \/ \E item \in ShopItems : ShopPurchase(item)
  \/ ShopContinue

SpecSession == InitSession /\ [][NextSession]_vars

\* C36 (base destruction ends the game): while the base HP is at or below 0
\* in the game scene the phase is playing (the frame that destroyed the base)
\* or gameover: the shop is not entered, nothing is bought and no wave is
\* prepared, also when the enemy that destroyed the base was the wave's last.
C36_BaseDestructionEndsGame ==
  /\ (game.scene = "game" /\ game.baseHP <= 0) => game.gameState \in { "playing", "gameover" }
  /\ (last.op \in { "purchase", "continue" }) => last.pre.baseHP > 0

\* C37 (one result per game): between two startNewGame calls the game-over
\* processing (addGameResult, permanent tokens, match history) runs at most
\* once, and a click on the start button in the gameover phase starts no wave.
C37_ResultRecordedOnce ==
  /\ game.recorded <= 1
  /\ (last.op = "startClick" /\ last.pre.gameState = "gameover") =>
       game.recorded = last.pre.recorded


(***************************************************************************)
(* Specification SpecGrid: the frames of the siege specification, tower    *)
(* cards dropped on free, occupied, path and base cells and outside the    *)
(* grid, and a new game started from the title screen.                     *)
(***************************************************************************)
\* the boards a run starts from: a breaker and a boss next to a tower, and a
\* breaker and a tank on the route with no tower built
GridBoards ==
  { [ t0 |-> 4000,
      enemies |-> << LockedOn(NewAttacker("breaker", WaveNumber, <<274, 260>>, 15), 1),
                     NewAttacker("boss", WaveNumber, CellCenter(6, 6), 15) >>,
      towers |-> << SiegeTower(6, 7) >> ],
    [ t0 |-> 5000,
      enemies |-> << NewAttacker("breaker", WaveNumber, <<290, 300>>, 17),
                     NewAttacker("tank", WaveNumber, <<296, 300>>, 17) >>,
      towers |-> <<>> ] }

InitGrid ==
  /\ \E board \in GridBoards :
       /\ enemies = board.enemies
       /\ towers = board.towers
       /\ now = board.t0
  /\ projectiles = <<>>
  /\ spellUsage = 0
  /\ occupied = OccupiedBy(towers)
  /\ rewardLoop = NoRewardCall
  /\ game = NoGame
  /\ steps = 0
  /\ last = NoFrame

\* canvas points of the drops: the centres of cell (6,7), of the path cell (5,6)
\* and of the base cell, and a point right of the grid
GridPoints == { CellCenter(6, 7), CellCenter(5, 6), CellCenter(BaseCell[1], BaseCell[2]),
                <<600, 20>> }

\* Game.handleTowerDrop of a physical card at a canvas point, accepted or not
GridDrop(point) ==
  /\ \E ids \in { AliveTowers(towers, 1) } :
     \E r \in { TowerDrop([n \in 1..Len(ids) |-> towers[ids[n]]], occupied, "physical",
                          point[1], point[2]) } :
       /\ Len(towers) + Len(r.towers) - Len(ids) <= MaxSiegeTowers
       /\ towers' =
            [k \in DOMAIN towers |->
               IF \E n \in 1..Len(ids) : ids[n] = k
                 THEN r.towers[CHOOSE n \in 1..Len(ids) : ids[n] = k] @@ [listed |-> TRUE]
               ELSE towers[k]]
              \o [n \in 1..(Len(r.towers) - Len(ids)) |->
                    r.towers[Len(ids) + n] @@ [listed |-> TRUE]]
       /\ occupied' = r.occupied
       /\ last' = [ op |-> "drop", ret |-> r.ret, cell |-> GetGridPosition(point[1], point[2]),
                    built |-> Len(r.towers) > Len(ids),
                    rebuilt |-> /\ Len(r.towers) > Len(ids)
                                /\ \E k \in DOMAIN towers :
                                     /\ ~towers[k].listed
                                     /\ <<towers[k].gridRow, towers[k].gridCol>>
                                          = GetGridPosition(point[1], point[2]),
                    uses |-> last.uses ]
  /\ UNCHANGED <<enemies, projectiles, spellUsage, now, steps, rewardLoop, game>>

\* Game.resetGameState(), called by startNewGame: the cells of the towers of
\* the list are released and the lists are emptied
GridResetMutantKeepCells ==
  /\ steps < MaxGridTicks
  /\ enemies' = <<>>
  /\ towers' = <<>>
  /\ projectiles' = <<>>
  /\ occupied' = occupied
  /\ steps' = steps + 1
  /\ last' = [ op |-> "reset", cleared |-> Len(AliveTowers(towers, 1)), uses |-> last.uses ]
  /\ UNCHANGED <<spellUsage, now, rewardLoop, game>>

GridReset ==
  /\ steps < MaxGridTicks
  /\ enemies' = <<>>
  /\ towers' = <<>>
  /\ projectiles' = <<>>
  /\ occupied' = occupied \ { <<towers[k].gridRow, towers[k].gridCol>> :
                                k \in { j \in DOMAIN towers : towers[j].listed } }
  /\ steps' = steps + 1
  /\ last' = [ op |-> "reset", cleared |-> Len(AliveTowers(towers, 1)), uses |-> last.uses ]
  /\ UNCHANGED <<spellUsage, now, rewardLoop, game>>

\* one frame of Game.gameLoop
GridFrame(skill, pick) == steps < MaxGridTicks /\ SiegeFrame(skill, pick)

NextGrid ==
  \/ \E skill \in BossSkills, pick \in 0..(MaxSiegeTowers - 1) : GridFrame(skill, pick)
  \/ \E point \in GridPoints : GridDrop(point)
  \/ GridReset

SpecGrid == InitGrid /\ [][NextGrid]_vars

\* the towers of Game.towers that stand on a cell
TowersOn(cell) ==
  { k \in DOMAIN towers :
      towers[k].listed /\ <<towers[k].gridRow, towers[k].gridCol>> = cell }

\* the towers the last frame removed from Game.towers
DestroyedInFrame ==
  { k \in DOMAIN last.preTowers : last.preTowers[k].listed /\ ~towers[k].listed }

\* C38: between frames, after a drop and after a reset, a cell of the grid is
\* marked occupied exactly when one tower of the list stands on it, every tower
\* of the list is alive, none stands on a path cell or on the base cell, no two
\* stand on the same cell, and the cell of a tower destroyed in the frame can be
\* built on again.
C38_GridOccupancy ==
  /\ \A row \in 0..(GridRows - 1), col \in 0..(GridCols - 1) :
       /\ <<row, col>> \in occupied <=> Cardinality(TowersOn(<<row, col>>)) = 1
       /\ Cardinality(TowersOn(<<row, col>>)) <= 1
  /\ occupied \subseteq (0..(GridRows - 1)) \X (0..(GridCols - 1))
  /\ \A k \in DOMAIN towers :
       towers[k].listed =>
         /\ towers[k].isAlive
         /\ ~IsPathCell(towers[k].gridRow, towers[k].gridCol)
         /\ ~IsBaseCell(towers[k].gridRow, towers[k].gridCol)
  /\ last.op = "frame" =>
       \A k \in DestroyedInFrame : CanPlaceTower(towers[k].gridRow, towers[k].gridCol, occupied)

\* a tower is built on the cell of a tower that was destroyed earlier
C38_Witness == last.op = "drop" /\ last.ret /\ last.rebuilt

\* a frame destroys a tower
GridTowerDestroyed == last.op = "frame" /\ DestroyedInFrame # {}

\* cards refused on a path cell and on the base cell, and a card merged into
\* the tower of an occupied cell
GridDropRefusedOnPath ==
  last.op = "drop" /\ ~last.ret /\ IsPathCell(last.cell[1], last.cell[2])
    /\ ~IsBaseCell(last.cell[1], last.cell[2])

GridDropRefusedOnBase == last.op = "drop" /\ ~last.ret /\ last.cell = BaseCell

GridDropMerged == last.op = "drop" /\ last.ret /\ ~last.built

\* a new game started with towers on the board
GridResetWithTowers == last.op = "reset" /\ last.cleared > 0

\* C39: in every state of the siege every enemy has 0 <= health <= maxHealth
\* and is not alive when its health is 0; and from one state to the next an
\* enemy that is not alive stays so and its health does not increase.
C39_EnemyHealth ==
  /\ [](\A i \in DOMAIN enemies :
          /\ 0 <= enemies[i].health /\ enemies[i].health <= enemies[i].maxHealth
          /\ enemies[i].health = 0 => ~enemies[i].isAlive)
  /\ [][\A i \in DOMAIN enemies :
          ~enemies[i].isAlive =>
            ~enemies'[i].isAlive /\ enemies'[i].health <= enemies[i].health]_vars

\* a wounded boss healed by its skill up to maxHealth, the heal cut by the cap,
\* with a dead enemy on record
C39_Witness ==
  /\ last.op = "frame"
  /\ \E i \in DOMAIN last.preEnemies :
       /\ last.preEnemies[i].type = "boss" /\ last.preEnemies[i].isAlive
       /\ last.preEnemies[i].health < last.preEnemies[i].maxHealth
       /\ last.preEnemies[i].health + last.preEnemies[i].maxHealth \div 10
            > last.preEnemies[i].maxHealth
       /\ last.midEnemies[i].health = last.midEnemies[i].maxHealth
  /\ \E j \in DOMAIN enemies : ~enemies[j].isAlive /\ enemies[j].health = 0

\* an enemy that reached the base: not alive, with health left
DeadWithHealth == \E j \in DOMAIN enemies : ~enemies[j].isAlive /\ enemies[j].health > 0

\* an enemy killed by a projectile
KilledByProjectile ==
  /\ last.op = "frame"
  /\ \E j \in DOMAIN last.midEnemies :
       last.midEnemies[j].isAlive /\ ~enemies[j].isAlive /\ enemies[j].health = 0

(***************************************************************************)
(* Specification SpecTowerLife: the frames of the siege specification, and *)
(* Tower.takeDamage and Tower.heal called on any tower the game holds a    *)
(* reference to, alive or dead, listed or filtered; a takeDamage that      *)
(* returns true is followed by handleTowerDestruction, as at its three     *)
(* call sites in Game.                                                     *)
(***************************************************************************)
TowerDamages == { 40, 60, 150 }
TowerHeals == { 30, 70 }

\* Game.handleTowerDestruction(tower)
DestructionHandled(ts, occ, k) ==
  [ towers |-> RecomputeAlive(ts), occupied |-> occ \ { <<ts[k].gridRow, ts[k].gridCol>> } ]

\* destroyed = tower.takeDamage(damage); if (destroyed) handleTowerDestruction(tower)
TakeDamageCall(k, damage) ==
  /\ steps < MaxTowerCalls
  /\ \E ret \in { TowerDestroyedBy(towers[k], damage) } :
     \E ts1 \in { [towers EXCEPT ![k] = TowerTakeDamage(@, damage)] } :
     \E handled \in { IF ret THEN DestructionHandled(ts1, occupied, k)
                      ELSE [ towers |-> ts1, occupied |-> occupied ] } :
       /\ towers' = handled.towers
       /\ occupied' = handled.occupied
       /\ last' = [ op |-> "takeDamage", tower |-> k, damage |-> damage, ret |-> ret,
                    handled |-> IF ret THEN 1 ELSE 0, pre |-> towers[k],
                    uses |-> last.uses ]
  /\ steps' = steps + 1
  /\ UNCHANGED <<enemies, projectiles, spellUsage, now, rewardLoop, game>>

\* tower.heal(amount)
HealCall(k, amount) ==
  /\ steps < MaxTowerCalls
  /\ towers' = [towers EXCEPT ![k] = TowerHeal(@, amount)]
  /\ last' = [ op |-> "heal", tower |-> k, amount |-> amount, pre |-> towers[k],
               uses |-> last.uses ]
  /\ steps' = steps + 1
  /\ UNCHANGED <<enemies, projectiles, spellUsage, now, occupied, rewardLoop, game>>

\* one frame of Game.gameLoop
LifeFrame(skill, pick) == steps < MaxTowerCalls /\ SiegeFrame(skill, pick)

NextTowerLife ==
  \/ \E k \in DOMAIN towers, damage \in TowerDamages : TakeDamageCall(k, damage)
  \/ \E k \in DOMAIN towers, amount \in TowerHeals : HealCall(k, amount)
  \/ \E skill \in BossSkills, pick \in 0..(MaxSiegeTowers - 1) : LifeFrame(skill, pick)

SpecTowerLife == InitGrid /\ [][NextTowerLife]_vars

\* the attacks of the last frame on tower k for which takeDamage returned true
DestroyingStrikes(k) ==
  { n \in EventsOf("melee") \cup EventsOf("selfDestruct") :
      last.events[n].tower = k /\ last.events[n].destroyed }

\* C40: a tower's hp stays within 0..maxHp; takeDamage returns true only for a
\* tower that was alive and is dead afterwards, and a dead tower stays dead
\* with its hp unchanged whatever is called on it, so takeDamage returns true
\* at most once per tower; handleTowerDestruction runs once for a call that
\* destroyed the tower and not otherwise, and leaves the tower's cell free; in
\* a frame, takeDamage returns true exactly once for each tower the frame
\* destroyed and never for another; a tower that fires in a frame is alive,
\* and a dead tower's target and last fire time never change.
C40_TowerDestroyedOnce ==
  /\ [](\A k \in DOMAIN towers : 0 <= towers[k].hp /\ towers[k].hp <= towers[k].maxHp)
  /\ [](last.op = "takeDamage" =>
          /\ last.ret <=> (last.pre.isAlive /\ ~towers[last.tower].isAlive)
          /\ last.handled = (IF last.pre.isAlive /\ ~towers[last.tower].isAlive THEN 1 ELSE 0)
          /\ last.ret => <<last.pre.gridRow, last.pre.gridCol>> \notin occupied
          /\ ~last.pre.isAlive => towers[last.tower] = last.pre)
  /\ [](last.op = "heal" /\ ~last.pre.isAlive => towers[last.tower] = last.pre)
  /\ [](last.op = "frame" =>
          /\ \A k \in DOMAIN last.preTowers :
               Cardinality(DestroyingStrikes(k))
                 = (IF last.preTowers[k].isAlive /\ ~last.midTowers[k].isAlive THEN 1 ELSE 0)
          /\ \A k \in last.fired : last.preTowers[k].isAlive /\ last.midTowers[k].isAlive)
  /\ [][\A k \in DOMAIN towers :
          ~towers[k].isAlive =>
            /\ ~towers'[k].isAlive
            /\ towers'[k].hp = towers[k].hp
            /\ towers'[k].currentTarget = towers[k].currentTarget
            /\ towers'[k].lastFireTime = towers[k].lastFireTime]_vars

\* takeDamage is called on a tower that an earlier call destroyed
C40_Witness ==
  /\ last.op = "takeDamage"
  /\ ~last.pre.isAlive /\ last.pre.hp = 0
  /\ last.pre.hp - last.damage <= 0
  /\ ~last.ret

\* a call of takeDamage destroys a tower, and a frame does
TowerDestroyedByCall == last.op = "takeDamage" /\ last.ret /\ last.handled = 1

TowerDestroyedInFrame == last.op = "frame" /\ \E k \in DOMAIN last.preTowers : DestroyingStrikes(k) # {}

\* heal is called on a dead tower, and on a damaged live tower with the cap cutting it
DeadTowerHealed == last.op = "heal" /\ ~last.pre.isAlive

LiveTowerHealedToCap ==
  /\ last.op = "heal" /\ last.pre.isAlive /\ last.pre.hp < last.pre.maxHp
  /\ last.pre.hp + last.amount > last.pre.maxHp
  /\ towers[last.tower].hp = last.pre.maxHp

\* a frame in which a tower fires, and a frame in which a tower destroyed
\* before it does not fire at the live enemy in its range
TowerFires == last.op = "frame" /\ last.fired # {}

DeadTowerSilent ==
  /\ last.op = "frame"
  /\ \E k \in DOMAIN last.preTowers :
       /\ ~last.preTowers[k].isAlive /\ k \notin last.fired
       /\ \E i \in DOMAIN last.midEnemies :
            /\ last.midEnemies[i].listed /\ last.midEnemies[i].isAlive
            /\ Dist2(last.midEnemies[i].pos, last.preTowers[k].pos)
                 <= last.preTowers[k].range * last.preTowers[k].range
====
